---- MODULE Spec2Model ----
(***************************************************************************)
(* Model of the quiz web application of src/main.py (its last revision,    *)
(* lines 389-681): the question-text parser parse_questions and the Flask  *)
(* routes home, start_quiz, question, summary and review, which the       *)
(* threads of the server run for several clients over the process-wide    *)
(* question cache.  Spec is that server; SpecSequential is the same        *)
(* handlers on a server that serves one request at a time; SpecParse       *)
(* applies parse_questions to texts assembled from question blocks.        *)
(*                                                                         *)
(* Python strings are TLA+ strings (TLC applies Len, SubSeq and \o to      *)
(* them character by character), Python lists are sequences, the session   *)
(* dict is a function whose DOMAIN is the set of keys present.             *)
(***************************************************************************)
EXTENDS Integers, Sequences, FiniteSets, TLC

(***************************************************************************)
(* Python string primitives used by parse_questions.                       *)
(***************************************************************************)

\* the characters str.strip() removes and the regular expression class \s
\* matches in a str: those str.isspace() holds of.  After the five with an
\* escape come, written as themselves, U+000B (the vertical tab, a soft line
\* break of the document), U+001C, U+001D, U+001E, U+001F, U+0085, U+00A0 and
\* U+1680.  The spaces U+2000 to U+200A, U+2028, U+2029, U+202F, U+205F and
\* U+3000 are whitespace to Python too and cannot be written in a string
\* here; no text of this module holds them.
Whitespace ==
  {" ", "\t", "\n", "\r", "\f",
   "", "", "", "", "", "", " ", " "}

\* the regular expression class \d of a str pattern: the decimal digits of
\* Unicode (category Nd, str.isdecimal()), here the 190 of them that a string
\* of this module can hold.  A string holds the characters below U+0100 other
\* than U+0060 and, above, those whose code point ends in 80 to FF (U+0180 to
\* U+01FF, U+0280 to U+02FF, ... up to U+FFFF); the other characters, the
\* digits among them, are in no text of this module.
Digits ==
  {"0", "1", "2", "3", "4", "5", "6", "7", "8", "9", "۰", "۱", "۲", "۳", "۴",
   "۵", "۶", "۷", "۸", "۹", "߀", "߁", "߂", "߃", "߄", "߅", "߆", "߇", "߈", "߉",
   "০", "১", "২", "৩", "৪", "৫", "৬", "৭", "৮", "৯", "૦", "૧", "૨", "૩", "૪",
   "૫", "૬", "૭", "૮", "૯", "௦", "௧", "௨", "௩", "௪", "௫", "௬", "௭", "௮", "௯",
   "೦", "೧", "೨", "೩", "೪", "೫", "೬", "೭", "೮", "೯", "෦", "෧", "෨", "෩", "෪",
   "෫", "෬", "෭", "෮", "෯", "໐", "໑", "໒", "໓", "໔", "໕", "໖", "໗", "໘", "໙",
   "႐", "႑", "႒", "႓", "႔", "႕", "႖", "႗", "႘", "႙", "០", "១", "២", "៣", "៤",
   "៥", "៦", "៧", "៨", "៩", "᧐", "᧑", "᧒", "᧓", "᧔", "᧕", "᧖", "᧗", "᧘", "᧙",
   "᪀", "᪁", "᪂", "᪃", "᪄", "᪅", "᪆", "᪇", "᪈", "᪉", "᪐", "᪑", "᪒", "᪓", "᪔",
   "᪕", "᪖", "᪗", "᪘", "᪙", "᮰", "᮱", "᮲", "᮳", "᮴", "᮵", "᮶", "᮷", "᮸", "᮹",
   "꣐", "꣑", "꣒", "꣓", "꣔", "꣕", "꣖", "꣗", "꣘", "꣙", "꧐", "꧑", "꧒", "꧓", "꧔",
   "꧕", "꧖", "꧗", "꧘", "꧙", "꧰", "꧱", "꧲", "꧳", "꧴", "꧵", "꧶", "꧷", "꧸", "꧹",
   "꯰", "꯱", "꯲", "꯳", "꯴", "꯵", "꯶", "꯷", "꯸", "꯹"}

\* the regular expression class [a-zA-Z]
AsciiLetters ==
  {"a", "b", "c", "d", "e", "f", "g", "h", "i", "j", "k", "l", "m", "n", "o",
   "p", "q", "r", "s", "t", "u", "v", "w", "x", "y", "z",
   "A", "B", "C", "D", "E", "F", "G", "H", "I", "J", "K", "L", "M", "N", "O",
   "P", "Q", "R", "S", "T", "U", "V", "W", "X", "Y", "Z"}

\* str.lower() of one character, for the characters it changes: <<c, lower>>
LowerPairs ==
  {<<"A", "a">>, <<"B", "b">>, <<"C", "c">>, <<"D", "d">>, <<"E", "e">>,
   <<"F", "f">>, <<"G", "g">>, <<"H", "h">>, <<"I", "i">>, <<"J", "j">>,
   <<"K", "k">>, <<"L", "l">>, <<"M", "m">>, <<"N", "n">>, <<"O", "o">>,
   <<"P", "p">>, <<"Q", "q">>, <<"R", "r">>, <<"S", "s">>, <<"T", "t">>,
   <<"U", "u">>, <<"V", "v">>, <<"W", "w">>, <<"X", "x">>, <<"Y", "y">>,
   <<"Z", "z">>, <<"À", "à">>, <<"Á", "á">>, <<"Â", "â">>, <<"Ã", "ã">>,
   <<"Ä", "ä">>, <<"Å", "å">>, <<"Æ", "æ">>, <<"Ç", "ç">>, <<"È", "è">>,
   <<"É", "é">>, <<"Ê", "ê">>, <<"Ë", "ë">>, <<"Ì", "ì">>, <<"Í", "í">>,
   <<"Î", "î">>, <<"Ï", "ï">>, <<"Ð", "ð">>, <<"Ñ", "ñ">>, <<"Ò", "ò">>,
   <<"Ó", "ó">>, <<"Ô", "ô">>, <<"Õ", "õ">>, <<"Ö", "ö">>, <<"Ø", "ø">>,
   <<"Ù", "ù">>, <<"Ú", "ú">>, <<"Û", "û">>, <<"Ü", "ü">>, <<"Ý", "ý">>,
   <<"Þ", "þ">>, <<"Ƃ", "ƃ">>, <<"Ƅ", "ƅ">>, <<"Ƈ", "ƈ">>, <<"Ƌ", "ƌ">>,
   <<"Ǝ", "ǝ">>, <<"Ƒ", "ƒ">>, <<"Ƙ", "ƙ">>, <<"Ơ", "ơ">>, <<"Ƣ", "ƣ">>,
   <<"Ƥ", "ƥ">>, <<"Ʀ", "ʀ">>, <<"Ƨ", "ƨ">>, <<"Ʃ", "ʃ">>, <<"Ƭ", "ƭ">>,
   <<"Ʈ", "ʈ">>, <<"Ư", "ư">>, <<"Ʊ", "ʊ">>, <<"Ʋ", "ʋ">>, <<"Ƴ", "ƴ">>,
   <<"Ƶ", "ƶ">>, <<"Ʒ", "ʒ">>, <<"Ƹ", "ƹ">>, <<"Ƽ", "ƽ">>, <<"Ǆ", "ǆ">>,
   <<"ǅ", "ǆ">>, <<"Ǉ", "ǉ">>, <<"ǈ", "ǉ">>, <<"Ǌ", "ǌ">>, <<"ǋ", "ǌ">>,
   <<"Ǎ", "ǎ">>, <<"Ǐ", "ǐ">>, <<"Ǒ", "ǒ">>, <<"Ǔ", "ǔ">>, <<"Ǖ", "ǖ">>,
   <<"Ǘ", "ǘ">>, <<"Ǚ", "ǚ">>, <<"Ǜ", "ǜ">>, <<"Ǟ", "ǟ">>, <<"Ǡ", "ǡ">>,
   <<"Ǣ", "ǣ">>, <<"Ǥ", "ǥ">>, <<"Ǧ", "ǧ">>, <<"Ǩ", "ǩ">>, <<"Ǫ", "ǫ">>,
   <<"Ǭ", "ǭ">>, <<"Ǯ", "ǯ">>, <<"Ǳ", "ǳ">>, <<"ǲ", "ǳ">>, <<"Ǵ", "ǵ">>,
   <<"Ƕ", "ƕ">>, <<"Ƿ", "ƿ">>, <<"Ǹ", "ǹ">>, <<"Ǻ", "ǻ">>, <<"Ǽ", "ǽ">>,
   <<"Ǿ", "ǿ">>, <<"Ά", "ά">>, <<"Έ", "έ">>, <<"Ή", "ή">>, <<"Ί", "ί">>,
   <<"Ό", "ό">>, <<"Ύ", "ύ">>, <<"Ώ", "ώ">>, <<"Α", "α">>, <<"Β", "β">>,
   <<"Γ", "γ">>, <<"Δ", "δ">>, <<"Ε", "ε">>, <<"Ζ", "ζ">>, <<"Η", "η">>,
   <<"Θ", "θ">>, <<"Ι", "ι">>, <<"Κ", "κ">>, <<"Λ", "λ">>, <<"Μ", "μ">>,
   <<"Ν", "ν">>, <<"Ξ", "ξ">>, <<"Ο", "ο">>, <<"Π", "π">>, <<"Ρ", "ρ">>,
   <<"Σ", "σ">>, <<"Τ", "τ">>, <<"Υ", "υ">>, <<"Φ", "φ">>, <<"Χ", "χ">>,
   <<"Ψ", "ψ">>, <<"Ω", "ω">>, <<"Ϊ", "ϊ">>, <<"Ϋ", "ϋ">>, <<"Ϗ", "ϗ">>,
   <<"Ϙ", "ϙ">>, <<"Ϛ", "ϛ">>, <<"Ϝ", "ϝ">>, <<"Ϟ", "ϟ">>, <<"Ϡ", "ϡ">>,
   <<"Ϣ", "ϣ">>, <<"Ϥ", "ϥ">>, <<"Ϧ", "ϧ">>, <<"Ϩ", "ϩ">>, <<"Ϫ", "ϫ">>,
   <<"Ϭ", "ϭ">>, <<"Ϯ", "ϯ">>, <<"ϴ", "θ">>, <<"Ϸ", "ϸ">>, <<"Ϲ", "ϲ">>,
   <<"Ϻ", "ϻ">>, <<"Ҁ", "ҁ">>, <<"Ҋ", "ҋ">>, <<"Ҍ", "ҍ">>, <<"Ҏ", "ҏ">>,
   <<"Ґ", "ґ">>, <<"Ғ", "ғ">>, <<"Ҕ", "ҕ">>, <<"Җ", "җ">>, <<"Ҙ", "ҙ">>,
   <<"Қ", "қ">>, <<"Ҝ", "ҝ">>, <<"Ҟ", "ҟ">>, <<"Ҡ", "ҡ">>, <<"Ң", "ң">>,
   <<"Ҥ", "ҥ">>, <<"Ҧ", "ҧ">>, <<"Ҩ", "ҩ">>, <<"Ҫ", "ҫ">>, <<"Ҭ", "ҭ">>,
   <<"Ү", "ү">>, <<"Ұ", "ұ">>, <<"Ҳ", "ҳ">>, <<"Ҵ", "ҵ">>, <<"Ҷ", "ҷ">>,
   <<"Ҹ", "ҹ">>, <<"Һ", "һ">>, <<"Ҽ", "ҽ">>, <<"Ҿ", "ҿ">>, <<"Ӏ", "ӏ">>,
   <<"Ӂ", "ӂ">>, <<"Ӄ", "ӄ">>, <<"Ӆ", "ӆ">>, <<"Ӈ", "ӈ">>, <<"Ӊ", "ӊ">>,
   <<"Ӌ", "ӌ">>, <<"Ӎ", "ӎ">>, <<"Ӑ", "ӑ">>, <<"Ӓ", "ӓ">>, <<"Ӕ", "ӕ">>,
   <<"Ӗ", "ӗ">>, <<"Ә", "ә">>, <<"Ӛ", "ӛ">>, <<"Ӝ", "ӝ">>, <<"Ӟ", "ӟ">>,
   <<"Ӡ", "ӡ">>, <<"Ӣ", "ӣ">>, <<"Ӥ", "ӥ">>, <<"Ӧ", "ӧ">>, <<"Ө", "ө">>,
   <<"Ӫ", "ӫ">>, <<"Ӭ", "ӭ">>, <<"Ӯ", "ӯ">>, <<"Ӱ", "ӱ">>, <<"Ӳ", "ӳ">>,
   <<"Ӵ", "ӵ">>, <<"Ӷ", "ӷ">>, <<"Ӹ", "ӹ">>, <<"Ӻ", "ӻ">>, <<"Ӽ", "ӽ">>,
   <<"Ӿ", "ӿ">>, <<"Ꮀ", "ꮀ">>, <<"Ꮁ", "ꮁ">>, <<"Ꮂ", "ꮂ">>, <<"Ꮃ", "ꮃ">>,
   <<"Ꮄ", "ꮄ">>, <<"Ꮅ", "ꮅ">>, <<"Ꮆ", "ꮆ">>, <<"Ꮇ", "ꮇ">>, <<"Ꮈ", "ꮈ">>,
   <<"Ꮉ", "ꮉ">>, <<"Ꮊ", "ꮊ">>, <<"Ꮋ", "ꮋ">>, <<"Ꮌ", "ꮌ">>, <<"Ꮍ", "ꮍ">>,
   <<"Ꮎ", "ꮎ">>, <<"Ꮏ", "ꮏ">>, <<"Ꮐ", "ꮐ">>, <<"Ꮑ", "ꮑ">>, <<"Ꮒ", "ꮒ">>,
   <<"Ꮓ", "ꮓ">>, <<"Ꮔ", "ꮔ">>, <<"Ꮕ", "ꮕ">>, <<"Ꮖ", "ꮖ">>, <<"Ꮗ", "ꮗ">>,
   <<"Ꮘ", "ꮘ">>, <<"Ꮙ", "ꮙ">>, <<"Ꮚ", "ꮚ">>, <<"Ꮛ", "ꮛ">>, <<"Ꮜ", "ꮜ">>,
   <<"Ꮝ", "ꮝ">>, <<"Ꮞ", "ꮞ">>, <<"Ꮟ", "ꮟ">>, <<"Ꮠ", "ꮠ">>, <<"Ꮡ", "ꮡ">>,
   <<"Ꮢ", "ꮢ">>, <<"Ꮣ", "ꮣ">>, <<"Ꮤ", "ꮤ">>, <<"Ꮥ", "ꮥ">>, <<"Ꮦ", "ꮦ">>,
   <<"Ꮧ", "ꮧ">>, <<"Ꮨ", "ꮨ">>, <<"Ꮩ", "ꮩ">>, <<"Ꮪ", "ꮪ">>, <<"Ꮫ", "ꮫ">>,
   <<"Ꮬ", "ꮬ">>, <<"Ꮭ", "ꮭ">>, <<"Ꮮ", "ꮮ">>, <<"Ꮯ", "ꮯ">>, <<"Ꮰ", "ꮰ">>,
   <<"Ꮱ", "ꮱ">>, <<"Ꮲ", "ꮲ">>, <<"Ꮳ", "ꮳ">>, <<"Ꮴ", "ꮴ">>, <<"Ꮵ", "ꮵ">>,
   <<"Ꮶ", "ꮶ">>, <<"Ꮷ", "ꮷ">>, <<"Ꮸ", "ꮸ">>, <<"Ꮹ", "ꮹ">>, <<"Ꮺ", "ꮺ">>,
   <<"Ꮻ", "ꮻ">>, <<"Ꮼ", "ꮼ">>, <<"Ꮽ", "ꮽ">>, <<"Ꮾ", "ꮾ">>, <<"Ꮿ", "ꮿ">>,
   <<"Ᏸ", "ᏸ">>, <<"Ᏹ", "ᏹ">>, <<"Ᏺ", "ᏺ">>, <<"Ᏻ", "ᏻ">>, <<"Ᏼ", "ᏼ">>,
   <<"Ᏽ", "ᏽ">>, <<"Ა", "ა">>, <<"Ბ", "ბ">>, <<"Გ", "გ">>, <<"Დ", "დ">>,
   <<"Ე", "ე">>, <<"Ვ", "ვ">>, <<"Ზ", "ზ">>, <<"Თ", "თ">>, <<"Ი", "ი">>,
   <<"Კ", "კ">>, <<"Ლ", "ლ">>, <<"Მ", "მ">>, <<"Ნ", "ნ">>, <<"Ო", "ო">>,
   <<"Პ", "პ">>, <<"Ჟ", "ჟ">>, <<"Რ", "რ">>, <<"Ს", "ს">>, <<"Ტ", "ტ">>,
   <<"Უ", "უ">>, <<"Ფ", "ფ">>, <<"Ქ", "ქ">>, <<"Ღ", "ღ">>, <<"Ყ", "ყ">>,
   <<"Შ", "შ">>, <<"Ჩ", "ჩ">>, <<"Ც", "ც">>, <<"Ძ", "ძ">>, <<"Წ", "წ">>,
   <<"Ჭ", "ჭ">>, <<"Ხ", "ხ">>, <<"Ჯ", "ჯ">>, <<"Ჰ", "ჰ">>, <<"Ჱ", "ჱ">>,
   <<"Ჲ", "ჲ">>, <<"Ჳ", "ჳ">>, <<"Ჴ", "ჴ">>, <<"Ჵ", "ჵ">>, <<"Ჶ", "ჶ">>,
   <<"Ჷ", "ჷ">>, <<"Ჸ", "ჸ">>, <<"Ჹ", "ჹ">>, <<"Ჺ", "ჺ">>, <<"Ჽ", "ჽ">>,
   <<"Ჾ", "ჾ">>, <<"Ჿ", "ჿ">>, <<"Ẁ", "ẁ">>, <<"Ẃ", "ẃ">>, <<"Ẅ", "ẅ">>,
   <<"Ẇ", "ẇ">>, <<"Ẉ", "ẉ">>, <<"Ẋ", "ẋ">>, <<"Ẍ", "ẍ">>, <<"Ẏ", "ẏ">>,
   <<"Ẑ", "ẑ">>, <<"Ẓ", "ẓ">>, <<"Ẕ", "ẕ">>, <<"ẞ", "ß">>, <<"Ạ", "ạ">>,
   <<"Ả", "ả">>, <<"Ấ", "ấ">>, <<"Ầ", "ầ">>, <<"Ẩ", "ẩ">>, <<"Ẫ", "ẫ">>,
   <<"Ậ", "ậ">>, <<"Ắ", "ắ">>, <<"Ằ", "ằ">>, <<"Ẳ", "ẳ">>, <<"Ẵ", "ẵ">>,
   <<"Ặ", "ặ">>, <<"Ẹ", "ẹ">>, <<"Ẻ", "ẻ">>, <<"Ẽ", "ẽ">>, <<"Ế", "ế">>,
   <<"Ề", "ề">>, <<"Ể", "ể">>, <<"Ễ", "ễ">>, <<"Ệ", "ệ">>, <<"Ỉ", "ỉ">>,
   <<"Ị", "ị">>, <<"Ọ", "ọ">>, <<"Ỏ", "ỏ">>, <<"Ố", "ố">>, <<"Ồ", "ồ">>,
   <<"Ổ", "ổ">>, <<"Ỗ", "ỗ">>, <<"Ộ", "ộ">>, <<"Ớ", "ớ">>, <<"Ờ", "ờ">>,
   <<"Ở", "ở">>, <<"Ỡ", "ỡ">>, <<"Ợ", "ợ">>, <<"Ụ", "ụ">>, <<"Ủ", "ủ">>,
   <<"Ứ", "ứ">>, <<"Ừ", "ừ">>, <<"Ử", "ử">>, <<"Ữ", "ữ">>, <<"Ự", "ự">>,
   <<"Ỳ", "ỳ">>, <<"Ỵ", "ỵ">>, <<"Ỷ", "ỷ">>, <<"Ỹ", "ỹ">>, <<"Ỻ", "ỻ">>,
   <<"Ỽ", "ỽ">>, <<"Ỿ", "ỿ">>, <<"ᾈ", "ᾀ">>, <<"ᾉ", "ᾁ">>, <<"ᾊ", "ᾂ">>,
   <<"ᾋ", "ᾃ">>, <<"ᾌ", "ᾄ">>, <<"ᾍ", "ᾅ">>, <<"ᾎ", "ᾆ">>, <<"ᾏ", "ᾇ">>,
   <<"ᾘ", "ᾐ">>, <<"ᾙ", "ᾑ">>, <<"ᾚ", "ᾒ">>, <<"ᾛ", "ᾓ">>, <<"ᾜ", "ᾔ">>,
   <<"ᾝ", "ᾕ">>, <<"ᾞ", "ᾖ">>, <<"ᾟ", "ᾗ">>, <<"ᾨ", "ᾠ">>, <<"ᾩ", "ᾡ">>,
   <<"ᾪ", "ᾢ">>, <<"ᾫ", "ᾣ">>, <<"ᾬ", "ᾤ">>, <<"ᾭ", "ᾥ">>, <<"ᾮ", "ᾦ">>,
   <<"ᾯ", "ᾧ">>, <<"Ᾰ", "ᾰ">>, <<"Ᾱ", "ᾱ">>, <<"ᾼ", "ᾳ">>, <<"ῌ", "ῃ">>,
   <<"Ῐ", "ῐ">>, <<"Ῑ", "ῑ">>, <<"Ῠ", "ῠ">>, <<"Ῡ", "ῡ">>, <<"Ῥ", "ῥ">>,
   <<"ῼ", "ῳ">>, <<"Ↄ", "ↄ">>, <<"Ⓐ", "ⓐ">>, <<"Ⓑ", "ⓑ">>, <<"Ⓒ", "ⓒ">>,
   <<"Ⓓ", "ⓓ">>, <<"Ⓔ", "ⓔ">>, <<"Ⓕ", "ⓕ">>, <<"Ⓖ", "ⓖ">>, <<"Ⓗ", "ⓗ">>,
   <<"Ⓘ", "ⓘ">>, <<"Ⓙ", "ⓙ">>, <<"Ⓚ", "ⓚ">>, <<"Ⓛ", "ⓛ">>, <<"Ⓜ", "ⓜ">>,
   <<"Ⓝ", "ⓝ">>, <<"Ⓞ", "ⓞ">>, <<"Ⓟ", "ⓟ">>, <<"Ⓠ", "ⓠ">>, <<"Ⓡ", "ⓡ">>,
   <<"Ⓢ", "ⓢ">>, <<"Ⓣ", "ⓣ">>, <<"Ⓤ", "ⓤ">>, <<"Ⓥ", "ⓥ">>, <<"Ⓦ", "ⓦ">>,
   <<"Ⓧ", "ⓧ">>, <<"Ⓨ", "ⓨ">>, <<"Ⓩ", "ⓩ">>, <<"Ⲁ", "ⲁ">>, <<"Ⲃ", "ⲃ">>,
   <<"Ⲅ", "ⲅ">>, <<"Ⲇ", "ⲇ">>, <<"Ⲉ", "ⲉ">>, <<"Ⲋ", "ⲋ">>, <<"Ⲍ", "ⲍ">>,
   <<"Ⲏ", "ⲏ">>, <<"Ⲑ", "ⲑ">>, <<"Ⲓ", "ⲓ">>, <<"Ⲕ", "ⲕ">>, <<"Ⲗ", "ⲗ">>,
   <<"Ⲙ", "ⲙ">>, <<"Ⲛ", "ⲛ">>, <<"Ⲝ", "ⲝ">>, <<"Ⲟ", "ⲟ">>, <<"Ⲡ", "ⲡ">>,
   <<"Ⲣ", "ⲣ">>, <<"Ⲥ", "ⲥ">>, <<"Ⲧ", "ⲧ">>, <<"Ⲩ", "ⲩ">>, <<"Ⲫ", "ⲫ">>,
   <<"Ⲭ", "ⲭ">>, <<"Ⲯ", "ⲯ">>, <<"Ⲱ", "ⲱ">>, <<"Ⲳ", "ⲳ">>, <<"Ⲵ", "ⲵ">>,
   <<"Ⲷ", "ⲷ">>, <<"Ⲹ", "ⲹ">>, <<"Ⲻ", "ⲻ">>, <<"Ⲽ", "ⲽ">>, <<"Ⲿ", "ⲿ">>,
   <<"Ⳁ", "ⳁ">>, <<"Ⳃ", "ⳃ">>, <<"Ⳅ", "ⳅ">>, <<"Ⳇ", "ⳇ">>, <<"Ⳉ", "ⳉ">>,
   <<"Ⳋ", "ⳋ">>, <<"Ⳍ", "ⳍ">>, <<"Ⳏ", "ⳏ">>, <<"Ⳑ", "ⳑ">>, <<"Ⳓ", "ⳓ">>,
   <<"Ⳕ", "ⳕ">>, <<"Ⳗ", "ⳗ">>, <<"Ⳙ", "ⳙ">>, <<"Ⳛ", "ⳛ">>, <<"Ⳝ", "ⳝ">>,
   <<"Ⳟ", "ⳟ">>, <<"Ⳡ", "ⳡ">>, <<"Ⳣ", "ⳣ">>, <<"Ⳬ", "ⳬ">>, <<"Ⳮ", "ⳮ">>,
   <<"Ⳳ", "ⳳ">>, <<"Ꚁ", "ꚁ">>, <<"Ꚃ", "ꚃ">>, <<"Ꚅ", "ꚅ">>, <<"Ꚇ", "ꚇ">>,
   <<"Ꚉ", "ꚉ">>, <<"Ꚋ", "ꚋ">>, <<"Ꚍ", "ꚍ">>, <<"Ꚏ", "ꚏ">>, <<"Ꚑ", "ꚑ">>,
   <<"Ꚓ", "ꚓ">>, <<"Ꚕ", "ꚕ">>, <<"Ꚗ", "ꚗ">>, <<"Ꚙ", "ꚙ">>, <<"Ꚛ", "ꚛ">>,
   <<"Ꞁ", "ꞁ">>, <<"Ꞃ", "ꞃ">>, <<"Ꞅ", "ꞅ">>, <<"Ꞇ", "ꞇ">>, <<"Ꞌ", "ꞌ">>,
   <<"Ꞑ", "ꞑ">>, <<"Ꞓ", "ꞓ">>, <<"Ꞗ", "ꞗ">>, <<"Ꞙ", "ꞙ">>, <<"Ꞛ", "ꞛ">>,
   <<"Ꞝ", "ꞝ">>, <<"Ꞟ", "ꞟ">>, <<"Ꞡ", "ꞡ">>, <<"Ꞣ", "ꞣ">>, <<"Ꞥ", "ꞥ">>,
   <<"Ꞧ", "ꞧ">>, <<"Ꞩ", "ꞩ">>, <<"Ʞ", "ʞ">>, <<"Ʇ", "ʇ">>, <<"Ʝ", "ʝ">>,
   <<"Ꞵ", "ꞵ">>, <<"Ꞷ", "ꞷ">>, <<"Ꞹ", "ꞹ">>, <<"Ꞻ", "ꞻ">>, <<"Ꞽ", "ꞽ">>,
   <<"Ꞿ", "ꞿ">>, <<"Ꟁ", "ꟁ">>, <<"Ꟃ", "ꟃ">>, <<"Ꞔ", "ꞔ">>, <<"Ʂ", "ʂ">>,
   <<"Ᶎ", "ᶎ">>, <<"Ꟈ", "ꟈ">>, <<"Ꟊ", "ꟊ">>, <<"Ꟑ", "ꟑ">>, <<"Ꟗ", "ꟗ">>,
   <<"Ꟙ", "ꟙ">>, <<"Ꟶ", "ꟶ">>}

\* the characters str.lower() changes into a character no string here can
\* hold (U+0181 into U+0253, ...)
LowerUnwritable ==
  {"Ɓ", "Ɔ", "Ɖ", "Ɗ", "Ə", "Ɛ", "Ɠ", "Ɣ", "Ɩ", "Ɨ", "Ɯ", "Ɲ", "Ɵ", "Ͻ", "Ͼ",
   "Ͽ", "Ⴀ", "Ⴁ", "Ⴂ", "Ⴃ", "Ⴄ", "Ⴅ", "Ⴆ", "Ⴇ", "Ⴈ", "Ⴉ", "Ⴊ", "Ⴋ", "Ⴌ", "Ⴍ",
   "Ⴎ", "Ⴏ", "Ⴐ", "Ⴑ", "Ⴒ", "Ⴓ", "Ⴔ", "Ⴕ", "Ⴖ", "Ⴗ", "Ⴘ", "Ⴙ", "Ⴚ", "Ⴛ", "Ⴜ",
   "Ⴝ", "Ⴞ", "Ⴟ", "Ⴠ", "Ⴡ", "Ⴢ", "Ⴣ", "Ⴤ", "Ⴥ", "Ⴧ", "Ⴭ", "Ꭰ", "Ꭱ", "Ꭲ", "Ꭳ",
   "Ꭴ", "Ꭵ", "Ꭶ", "Ꭷ", "Ꭸ", "Ꭹ", "Ꭺ", "Ꭻ", "Ꭼ", "Ꭽ", "Ꭾ", "Ꭿ", "Ὰ", "Ά", "Ὲ",
   "Έ", "Ὴ", "Ή", "Ὶ", "Ί", "Ὺ", "Ύ", "Ὸ", "Ό", "Ὼ", "Ώ", "Ɥ", "Ɦ", "Ɜ", "Ɡ",
   "Ɬ", "Ɪ", "Ꭓ"}

\* str.lower() of one character, as a map
LowerOf ==
  [c \in {p[1] : p \in LowerPairs} |-> (CHOOSE p \in LowerPairs : p[1] = c)[2]]

\* str.upper() of one character, for the characters it changes; the upper
\* case of some is 2 or 3 characters (U+00DF into SS): <<c, upper>>
UpperPairs ==
  {<<"a", "A">>, <<"b", "B">>, <<"c", "C">>, <<"d", "D">>, <<"e", "E">>,
   <<"f", "F">>, <<"g", "G">>, <<"h", "H">>, <<"i", "I">>, <<"j", "J">>,
   <<"k", "K">>, <<"l", "L">>, <<"m", "M">>, <<"n", "N">>, <<"o", "O">>,
   <<"p", "P">>, <<"q", "Q">>, <<"r", "R">>, <<"s", "S">>, <<"t", "T">>,
   <<"u", "U">>, <<"v", "V">>, <<"w", "W">>, <<"x", "X">>, <<"y", "Y">>,
   <<"z", "Z">>, <<"µ", "Μ">>, <<"ß", "SS">>, <<"à", "À">>, <<"á", "Á">>,
   <<"â", "Â">>, <<"ã", "Ã">>, <<"ä", "Ä">>, <<"å", "Å">>, <<"æ", "Æ">>,
   <<"ç", "Ç">>, <<"è", "È">>, <<"é", "É">>, <<"ê", "Ê">>, <<"ë", "Ë">>,
   <<"ì", "Ì">>, <<"í", "Í">>, <<"î", "Î">>, <<"ï", "Ï">>, <<"ð", "Ð">>,
   <<"ñ", "Ñ">>, <<"ò", "Ò">>, <<"ó", "Ó">>, <<"ô", "Ô">>, <<"õ", "Õ">>,
   <<"ö", "Ö">>, <<"ø", "Ø">>, <<"ù", "Ù">>, <<"ú", "Ú">>, <<"û", "Û">>,
   <<"ü", "Ü">>, <<"ý", "Ý">>, <<"þ", "Þ">>, <<"ƃ", "Ƃ">>, <<"ƅ", "Ƅ">>,
   <<"ƈ", "Ƈ">>, <<"ƌ", "Ƌ">>, <<"ƒ", "Ƒ">>, <<"ƕ", "Ƕ">>, <<"ƙ", "Ƙ">>,
   <<"ơ", "Ơ">>, <<"ƣ", "Ƣ">>, <<"ƥ", "Ƥ">>, <<"ƨ", "Ƨ">>, <<"ƭ", "Ƭ">>,
   <<"ư", "Ư">>, <<"ƴ", "Ƴ">>, <<"ƶ", "Ƶ">>, <<"ƹ", "Ƹ">>, <<"ƽ", "Ƽ">>,
   <<"ƿ", "Ƿ">>, <<"ǅ", "Ǆ">>, <<"ǆ", "Ǆ">>, <<"ǈ", "Ǉ">>, <<"ǉ", "Ǉ">>,
   <<"ǋ", "Ǌ">>, <<"ǌ", "Ǌ">>, <<"ǎ", "Ǎ">>, <<"ǐ", "Ǐ">>, <<"ǒ", "Ǒ">>,
   <<"ǔ", "Ǔ">>, <<"ǖ", "Ǖ">>, <<"ǘ", "Ǘ">>, <<"ǚ", "Ǚ">>, <<"ǜ", "Ǜ">>,
   <<"ǝ", "Ǝ">>, <<"ǟ", "Ǟ">>, <<"ǡ", "Ǡ">>, <<"ǣ", "Ǣ">>, <<"ǥ", "Ǥ">>,
   <<"ǧ", "Ǧ">>, <<"ǩ", "Ǩ">>, <<"ǫ", "Ǫ">>, <<"ǭ", "Ǭ">>, <<"ǯ", "Ǯ">>,
   <<"ǲ", "Ǳ">>, <<"ǳ", "Ǳ">>, <<"ǵ", "Ǵ">>, <<"ǹ", "Ǹ">>, <<"ǻ", "Ǻ">>,
   <<"ǽ", "Ǽ">>, <<"ǿ", "Ǿ">>, <<"ʀ", "Ʀ">>, <<"ʂ", "Ʂ">>, <<"ʃ", "Ʃ">>,
   <<"ʇ", "Ʇ">>, <<"ʈ", "Ʈ">>, <<"ʊ", "Ʊ">>, <<"ʋ", "Ʋ">>, <<"ʒ", "Ʒ">>,
   <<"ʝ", "Ʝ">>, <<"ʞ", "Ʞ">>, <<"ά", "Ά">>, <<"έ", "Έ">>, <<"ή", "Ή">>,
   <<"ί", "Ί">>, <<"α", "Α">>, <<"β", "Β">>, <<"γ", "Γ">>, <<"δ", "Δ">>,
   <<"ε", "Ε">>, <<"ζ", "Ζ">>, <<"η", "Η">>, <<"θ", "Θ">>, <<"ι", "Ι">>,
   <<"κ", "Κ">>, <<"λ", "Λ">>, <<"μ", "Μ">>, <<"ν", "Ν">>, <<"ξ", "Ξ">>,
   <<"ο", "Ο">>, <<"π", "Π">>, <<"ρ", "Ρ">>, <<"ς", "Σ">>, <<"σ", "Σ">>,
   <<"τ", "Τ">>, <<"υ", "Υ">>, <<"φ", "Φ">>, <<"χ", "Χ">>, <<"ψ", "Ψ">>,
   <<"ω", "Ω">>, <<"ϊ", "Ϊ">>, <<"ϋ", "Ϋ">>, <<"ό", "Ό">>, <<"ύ", "Ύ">>,
   <<"ώ", "Ώ">>, <<"ϐ", "Β">>, <<"ϑ", "Θ">>, <<"ϕ", "Φ">>, <<"ϖ", "Π">>,
   <<"ϗ", "Ϗ">>, <<"ϙ", "Ϙ">>, <<"ϛ", "Ϛ">>, <<"ϝ", "Ϝ">>, <<"ϟ", "Ϟ">>,
   <<"ϡ", "Ϡ">>, <<"ϣ", "Ϣ">>, <<"ϥ", "Ϥ">>, <<"ϧ", "Ϧ">>, <<"ϩ", "Ϩ">>,
   <<"ϫ", "Ϫ">>, <<"ϭ", "Ϭ">>, <<"ϯ", "Ϯ">>, <<"ϰ", "Κ">>, <<"ϱ", "Ρ">>,
   <<"ϲ", "Ϲ">>, <<"ϵ", "Ε">>, <<"ϸ", "Ϸ">>, <<"ϻ", "Ϻ">>, <<"ҁ", "Ҁ">>,
   <<"ҋ", "Ҋ">>, <<"ҍ", "Ҍ">>, <<"ҏ", "Ҏ">>, <<"ґ", "Ґ">>, <<"ғ", "Ғ">>,
   <<"ҕ", "Ҕ">>, <<"җ", "Җ">>, <<"ҙ", "Ҙ">>, <<"қ", "Қ">>, <<"ҝ", "Ҝ">>,
   <<"ҟ", "Ҟ">>, <<"ҡ", "Ҡ">>, <<"ң", "Ң">>, <<"ҥ", "Ҥ">>, <<"ҧ", "Ҧ">>,
   <<"ҩ", "Ҩ">>, <<"ҫ", "Ҫ">>, <<"ҭ", "Ҭ">>, <<"ү", "Ү">>, <<"ұ", "Ұ">>,
   <<"ҳ", "Ҳ">>, <<"ҵ", "Ҵ">>, <<"ҷ", "Ҷ">>, <<"ҹ", "Ҹ">>, <<"һ", "Һ">>,
   <<"ҽ", "Ҽ">>, <<"ҿ", "Ҿ">>, <<"ӂ", "Ӂ">>, <<"ӄ", "Ӄ">>, <<"ӆ", "Ӆ">>,
   <<"ӈ", "Ӈ">>, <<"ӊ", "Ӊ">>, <<"ӌ", "Ӌ">>, <<"ӎ", "Ӎ">>, <<"ӏ", "Ӏ">>,
   <<"ӑ", "Ӑ">>, <<"ӓ", "Ӓ">>, <<"ӕ", "Ӕ">>, <<"ӗ", "Ӗ">>, <<"ә", "Ә">>,
   <<"ӛ", "Ӛ">>, <<"ӝ", "Ӝ">>, <<"ӟ", "Ӟ">>, <<"ӡ", "Ӡ">>, <<"ӣ", "Ӣ">>,
   <<"ӥ", "Ӥ">>, <<"ӧ", "Ӧ">>, <<"ө", "Ө">>, <<"ӫ", "Ӫ">>, <<"ӭ", "Ӭ">>,
   <<"ӯ", "Ӯ">>, <<"ӱ", "Ӱ">>, <<"ӳ", "Ӳ">>, <<"ӵ", "Ӵ">>, <<"ӷ", "Ӷ">>,
   <<"ӹ", "Ӹ">>, <<"ӻ", "Ӻ">>, <<"ӽ", "Ӽ">>, <<"ӿ", "Ӿ">>, <<"ა", "Ა">>,
   <<"ბ", "Ბ">>, <<"გ", "Გ">>, <<"დ", "Დ">>, <<"ე", "Ე">>, <<"ვ", "Ვ">>,
   <<"ზ", "Ზ">>, <<"თ", "Თ">>, <<"ი", "Ი">>, <<"კ", "Კ">>, <<"ლ", "Ლ">>,
   <<"მ", "Მ">>, <<"ნ", "Ნ">>, <<"ო", "Ო">>, <<"პ", "Პ">>, <<"ჟ", "Ჟ">>,
   <<"რ", "Რ">>, <<"ს", "Ს">>, <<"ტ", "Ტ">>, <<"უ", "Უ">>, <<"ფ", "Ფ">>,
   <<"ქ", "Ქ">>, <<"ღ", "Ღ">>, <<"ყ", "Ყ">>, <<"შ", "Შ">>, <<"ჩ", "Ჩ">>,
   <<"ც", "Ც">>, <<"ძ", "Ძ">>, <<"წ", "Წ">>, <<"ჭ", "Ჭ">>, <<"ხ", "Ხ">>,
   <<"ჯ", "Ჯ">>, <<"ჰ", "Ჰ">>, <<"ჱ", "Ჱ">>, <<"ჲ", "Ჲ">>, <<"ჳ", "Ჳ">>,
   <<"ჴ", "Ჴ">>, <<"ჵ", "Ჵ">>, <<"ჶ", "Ჶ">>, <<"ჷ", "Ჷ">>, <<"ჸ", "Ჸ">>,
   <<"ჹ", "Ჹ">>, <<"ჺ", "Ჺ">>, <<"ჽ", "Ჽ">>, <<"ჾ", "Ჾ">>, <<"ჿ", "Ჿ">>,
   <<"ᏸ", "Ᏸ">>, <<"ᏹ", "Ᏹ">>, <<"ᏺ", "Ᏺ">>, <<"ᏻ", "Ᏻ">>, <<"ᏼ", "Ᏼ">>,
   <<"ᏽ", "Ᏽ">>, <<"ᶎ", "Ᶎ">>, <<"ẁ", "Ẁ">>, <<"ẃ", "Ẃ">>, <<"ẅ", "Ẅ">>,
   <<"ẇ", "Ẇ">>, <<"ẉ", "Ẉ">>, <<"ẋ", "Ẋ">>, <<"ẍ", "Ẍ">>, <<"ẏ", "Ẏ">>,
   <<"ẑ", "Ẑ">>, <<"ẓ", "Ẓ">>, <<"ẕ", "Ẕ">>, <<"ẚ", "Aʾ">>, <<"ạ", "Ạ">>,
   <<"ả", "Ả">>, <<"ấ", "Ấ">>, <<"ầ", "Ầ">>, <<"ẩ", "Ẩ">>, <<"ẫ", "Ẫ">>,
   <<"ậ", "Ậ">>, <<"ắ", "Ắ">>, <<"ằ", "Ằ">>, <<"ẳ", "Ẳ">>, <<"ẵ", "Ẵ">>,
   <<"ặ", "Ặ">>, <<"ẹ", "Ẹ">>, <<"ẻ", "Ẻ">>, <<"ẽ", "Ẽ">>, <<"ế", "Ế">>,
   <<"ề", "Ề">>, <<"ể", "Ể">>, <<"ễ", "Ễ">>, <<"ệ", "Ệ">>, <<"ỉ", "Ỉ">>,
   <<"ị", "Ị">>, <<"ọ", "Ọ">>, <<"ỏ", "Ỏ">>, <<"ố", "Ố">>, <<"ồ", "Ồ">>,
   <<"ổ", "Ổ">>, <<"ỗ", "Ỗ">>, <<"ộ", "Ộ">>, <<"ớ", "Ớ">>, <<"ờ", "Ờ">>,
   <<"ở", "Ở">>, <<"ỡ", "Ỡ">>, <<"ợ", "Ợ">>, <<"ụ", "Ụ">>, <<"ủ", "Ủ">>,
   <<"ứ", "Ứ">>, <<"ừ", "Ừ">>, <<"ử", "Ử">>, <<"ữ", "Ữ">>, <<"ự", "Ự">>,
   <<"ỳ", "Ỳ">>, <<"ỵ", "Ỵ">>, <<"ỷ", "Ỷ">>, <<"ỹ", "Ỹ">>, <<"ỻ", "Ỻ">>,
   <<"ỽ", "Ỽ">>, <<"ỿ", "Ỿ">>, <<"ᾰ", "Ᾰ">>, <<"ᾱ", "Ᾱ">>, <<"ᾲ", "ᾺΙ">>,
   <<"ᾳ", "ΑΙ">>, <<"ᾴ", "ΆΙ">>, <<"ᾼ", "ΑΙ">>, <<"ι", "Ι">>, <<"ῂ", "ῊΙ">>,
   <<"ῃ", "ΗΙ">>, <<"ῄ", "ΉΙ">>, <<"ῌ", "ΗΙ">>, <<"ῐ", "Ῐ">>, <<"ῑ", "Ῑ">>,
   <<"ῠ", "Ῠ">>, <<"ῡ", "Ῡ">>, <<"ῥ", "Ῥ">>, <<"ῲ", "ῺΙ">>, <<"ῳ", "ΩΙ">>,
   <<"ῴ", "ΏΙ">>, <<"ῼ", "ΩΙ">>, <<"ↄ", "Ↄ">>, <<"ⓐ", "Ⓐ">>, <<"ⓑ", "Ⓑ">>,
   <<"ⓒ", "Ⓒ">>, <<"ⓓ", "Ⓓ">>, <<"ⓔ", "Ⓔ">>, <<"ⓕ", "Ⓕ">>, <<"ⓖ", "Ⓖ">>,
   <<"ⓗ", "Ⓗ">>, <<"ⓘ", "Ⓘ">>, <<"ⓙ", "Ⓙ">>, <<"ⓚ", "Ⓚ">>, <<"ⓛ", "Ⓛ">>,
   <<"ⓜ", "Ⓜ">>, <<"ⓝ", "Ⓝ">>, <<"ⓞ", "Ⓞ">>, <<"ⓟ", "Ⓟ">>, <<"ⓠ", "Ⓠ">>,
   <<"ⓡ", "Ⓡ">>, <<"ⓢ", "Ⓢ">>, <<"ⓣ", "Ⓣ">>, <<"ⓤ", "Ⓤ">>, <<"ⓥ", "Ⓥ">>,
   <<"ⓦ", "Ⓦ">>, <<"ⓧ", "Ⓧ">>, <<"ⓨ", "Ⓨ">>, <<"ⓩ", "Ⓩ">>, <<"ⲁ", "Ⲁ">>,
   <<"ⲃ", "Ⲃ">>, <<"ⲅ", "Ⲅ">>, <<"ⲇ", "Ⲇ">>, <<"ⲉ", "Ⲉ">>, <<"ⲋ", "Ⲋ">>,
   <<"ⲍ", "Ⲍ">>, <<"ⲏ", "Ⲏ">>, <<"ⲑ", "Ⲑ">>, <<"ⲓ", "Ⲓ">>, <<"ⲕ", "Ⲕ">>,
   <<"ⲗ", "Ⲗ">>, <<"ⲙ", "Ⲙ">>, <<"ⲛ", "Ⲛ">>, <<"ⲝ", "Ⲝ">>, <<"ⲟ", "Ⲟ">>,
   <<"ⲡ", "Ⲡ">>, <<"ⲣ", "Ⲣ">>, <<"ⲥ", "Ⲥ">>, <<"ⲧ", "Ⲧ">>, <<"ⲩ", "Ⲩ">>,
   <<"ⲫ", "Ⲫ">>, <<"ⲭ", "Ⲭ">>, <<"ⲯ", "Ⲯ">>, <<"ⲱ", "Ⲱ">>, <<"ⲳ", "Ⲳ">>,
   <<"ⲵ", "Ⲵ">>, <<"ⲷ", "Ⲷ">>, <<"ⲹ", "Ⲹ">>, <<"ⲻ", "Ⲻ">>, <<"ⲽ", "Ⲽ">>,
   <<"ⲿ", "Ⲿ">>, <<"ⳁ", "Ⳁ">>, <<"ⳃ", "Ⳃ">>, <<"ⳅ", "Ⳅ">>, <<"ⳇ", "Ⳇ">>,
   <<"ⳉ", "Ⳉ">>, <<"ⳋ", "Ⳋ">>, <<"ⳍ", "Ⳍ">>, <<"ⳏ", "Ⳏ">>, <<"ⳑ", "Ⳑ">>,
   <<"ⳓ", "Ⳓ">>, <<"ⳕ", "Ⳕ">>, <<"ⳗ", "Ⳗ">>, <<"ⳙ", "Ⳙ">>, <<"ⳛ", "Ⳛ">>,
   <<"ⳝ", "Ⳝ">>, <<"ⳟ", "Ⳟ">>, <<"ⳡ", "Ⳡ">>, <<"ⳣ", "Ⳣ">>, <<"ⳬ", "Ⳬ">>,
   <<"ⳮ", "Ⳮ">>, <<"ⳳ", "Ⳳ">>, <<"ꚁ", "Ꚁ">>, <<"ꚃ", "Ꚃ">>, <<"ꚅ", "Ꚅ">>,
   <<"ꚇ", "Ꚇ">>, <<"ꚉ", "Ꚉ">>, <<"ꚋ", "Ꚋ">>, <<"ꚍ", "Ꚍ">>, <<"ꚏ", "Ꚏ">>,
   <<"ꚑ", "Ꚑ">>, <<"ꚓ", "Ꚓ">>, <<"ꚕ", "Ꚕ">>, <<"ꚗ", "Ꚗ">>, <<"ꚙ", "Ꚙ">>,
   <<"ꚛ", "Ꚛ">>, <<"ꞁ", "Ꞁ">>, <<"ꞃ", "Ꞃ">>, <<"ꞅ", "Ꞅ">>, <<"ꞇ", "Ꞇ">>,
   <<"ꞌ", "Ꞌ">>, <<"ꞑ", "Ꞑ">>, <<"ꞓ", "Ꞓ">>, <<"ꞔ", "Ꞔ">>, <<"ꞗ", "Ꞗ">>,
   <<"ꞙ", "Ꞙ">>, <<"ꞛ", "Ꞛ">>, <<"ꞝ", "Ꞝ">>, <<"ꞟ", "Ꞟ">>, <<"ꞡ", "Ꞡ">>,
   <<"ꞣ", "Ꞣ">>, <<"ꞥ", "Ꞥ">>, <<"ꞧ", "Ꞧ">>, <<"ꞩ", "Ꞩ">>, <<"ꞵ", "Ꞵ">>,
   <<"ꞷ", "Ꞷ">>, <<"ꞹ", "Ꞹ">>, <<"ꞻ", "Ꞻ">>, <<"ꞽ", "Ꞽ">>, <<"ꞿ", "Ꞿ">>,
   <<"ꟁ", "Ꟁ">>, <<"ꟃ", "Ꟃ">>, <<"ꟈ", "Ꟈ">>, <<"ꟊ", "Ꟊ">>, <<"ꟑ", "Ꟑ">>,
   <<"ꟗ", "Ꟗ">>, <<"ꟙ", "Ꟙ">>, <<"ꟶ", "Ꟶ">>, <<"ꮀ", "Ꮀ">>, <<"ꮁ", "Ꮁ">>,
   <<"ꮂ", "Ꮂ">>, <<"ꮃ", "Ꮃ">>, <<"ꮄ", "Ꮄ">>, <<"ꮅ", "Ꮅ">>, <<"ꮆ", "Ꮆ">>,
   <<"ꮇ", "Ꮇ">>, <<"ꮈ", "Ꮈ">>, <<"ꮉ", "Ꮉ">>, <<"ꮊ", "Ꮊ">>, <<"ꮋ", "Ꮋ">>,
   <<"ꮌ", "Ꮌ">>, <<"ꮍ", "Ꮍ">>, <<"ꮎ", "Ꮎ">>, <<"ꮏ", "Ꮏ">>, <<"ꮐ", "Ꮐ">>,
   <<"ꮑ", "Ꮑ">>, <<"ꮒ", "Ꮒ">>, <<"ꮓ", "Ꮓ">>, <<"ꮔ", "Ꮔ">>, <<"ꮕ", "Ꮕ">>,
   <<"ꮖ", "Ꮖ">>, <<"ꮗ", "Ꮗ">>, <<"ꮘ", "Ꮘ">>, <<"ꮙ", "Ꮙ">>, <<"ꮚ", "Ꮚ">>,
   <<"ꮛ", "Ꮛ">>, <<"ꮜ", "Ꮜ">>, <<"ꮝ", "Ꮝ">>, <<"ꮞ", "Ꮞ">>, <<"ꮟ", "Ꮟ">>,
   <<"ꮠ", "Ꮠ">>, <<"ꮡ", "Ꮡ">>, <<"ꮢ", "Ꮢ">>, <<"ꮣ", "Ꮣ">>, <<"ꮤ", "Ꮤ">>,
   <<"ꮥ", "Ꮥ">>, <<"ꮦ", "Ꮦ">>, <<"ꮧ", "Ꮧ">>, <<"ꮨ", "Ꮨ">>, <<"ꮩ", "Ꮩ">>,
   <<"ꮪ", "Ꮪ">>, <<"ꮫ", "Ꮫ">>, <<"ꮬ", "Ꮬ">>, <<"ꮭ", "Ꮭ">>, <<"ꮮ", "Ꮮ">>,
   <<"ꮯ", "Ꮯ">>, <<"ꮰ", "Ꮰ">>, <<"ꮱ", "Ꮱ">>, <<"ꮲ", "Ꮲ">>, <<"ꮳ", "Ꮳ">>,
   <<"ꮴ", "Ꮴ">>, <<"ꮵ", "Ꮵ">>, <<"ꮶ", "Ꮶ">>, <<"ꮷ", "Ꮷ">>, <<"ꮸ", "Ꮸ">>,
   <<"ꮹ", "Ꮹ">>, <<"ꮺ", "Ꮺ">>, <<"ꮻ", "Ꮻ">>, <<"ꮼ", "Ꮼ">>, <<"ꮽ", "Ꮽ">>,
   <<"ꮾ", "Ꮾ">>, <<"ꮿ", "Ꮿ">>}

\* the characters str.upper() changes into characters no string here can
\* hold (U+00FF into U+0178, ...)
UpperUnwritable ==
  {"ÿ", "ƀ", "ƚ", "ƞ", "ǰ", "ʉ", "ʌ", "ΐ", "ΰ", "ϳ", "ր", "ց", "ւ", "փ", "ք",
   "օ", "ֆ", "և", "ᲀ", "ᲁ", "ᲂ", "ᲃ", "ᲄ", "ᲅ", "ᲆ", "ᲇ", "ᲈ", "ẖ", "ẗ", "ẘ",
   "ẙ", "ẛ", "ᾀ", "ᾁ", "ᾂ", "ᾃ", "ᾄ", "ᾅ", "ᾆ", "ᾇ", "ᾈ", "ᾉ", "ᾊ", "ᾋ", "ᾌ",
   "ᾍ", "ᾎ", "ᾏ", "ᾐ", "ᾑ", "ᾒ", "ᾓ", "ᾔ", "ᾕ", "ᾖ", "ᾗ", "ᾘ", "ᾙ", "ᾚ", "ᾛ",
   "ᾜ", "ᾝ", "ᾞ", "ᾟ", "ᾠ", "ᾡ", "ᾢ", "ᾣ", "ᾤ", "ᾥ", "ᾦ", "ᾧ", "ᾨ", "ᾩ", "ᾪ",
   "ᾫ", "ᾬ", "ᾭ", "ᾮ", "ᾯ", "ᾶ", "ᾷ", "ῆ", "ῇ", "ῒ", "ΐ", "ῖ", "ῗ", "ῢ", "ΰ",
   "ῤ", "ῦ", "ῧ", "ῶ", "ῷ"}

\* str.upper() of one character, as a map
UpperOf ==
  [c \in {p[1] : p \in UpperPairs} |-> (CHOOSE p \in UpperPairs : p[1] = c)[2]]

\* the cased characters that are not case-ignorable: upper-case, lower-case
\* and title-case letters and the other characters with a case
Cased ==
  {"A", "B", "C", "D", "E", "F", "G", "H", "I", "J", "K", "L", "M", "N", "O",
   "P", "Q", "R", "S", "T", "U", "V", "W", "X", "Y", "Z", "a", "b", "c", "d",
   "e", "f", "g", "h", "i", "j", "k", "l", "m", "n", "o", "p", "q", "r", "s",
   "t", "u", "v", "w", "x", "y", "z", "ª", "µ", "º", "À", "Á", "Â", "Ã", "Ä",
   "Å", "Æ", "Ç", "È", "É", "Ê", "Ë", "Ì", "Í", "Î", "Ï", "Ð", "Ñ", "Ò", "Ó",
   "Ô", "Õ", "Ö", "Ø", "Ù", "Ú", "Û", "Ü", "Ý", "Þ", "ß", "à", "á", "â", "ã",
   "ä", "å", "æ", "ç", "è", "é", "ê", "ë", "ì", "í", "î", "ï", "ð", "ñ", "ò",
   "ó", "ô", "õ", "ö", "ø", "ù", "ú", "û", "ü", "ý", "þ", "ÿ", "ƀ", "Ɓ", "Ƃ",
   "ƃ", "Ƅ", "ƅ", "Ɔ", "Ƈ", "ƈ", "Ɖ", "Ɗ", "Ƌ", "ƌ", "ƍ", "Ǝ", "Ə", "Ɛ", "Ƒ",
   "ƒ", "Ɠ", "Ɣ", "ƕ", "Ɩ", "Ɨ", "Ƙ", "ƙ", "ƚ", "ƛ", "Ɯ", "Ɲ", "ƞ", "Ɵ", "Ơ",
   "ơ", "Ƣ", "ƣ", "Ƥ", "ƥ", "Ʀ", "Ƨ", "ƨ", "Ʃ", "ƪ", "ƫ", "Ƭ", "ƭ", "Ʈ", "Ư",
   "ư", "Ʊ", "Ʋ", "Ƴ", "ƴ", "Ƶ", "ƶ", "Ʒ", "Ƹ", "ƹ", "ƺ", "Ƽ", "ƽ", "ƾ", "ƿ",
   "Ǆ", "ǅ", "ǆ", "Ǉ", "ǈ", "ǉ", "Ǌ", "ǋ", "ǌ", "Ǎ", "ǎ", "Ǐ", "ǐ", "Ǒ", "ǒ",
   "Ǔ", "ǔ", "Ǖ", "ǖ", "Ǘ", "ǘ", "Ǚ", "ǚ", "Ǜ", "ǜ", "ǝ", "Ǟ", "ǟ", "Ǡ", "ǡ",
   "Ǣ", "ǣ", "Ǥ", "ǥ", "Ǧ", "ǧ", "Ǩ", "ǩ", "Ǫ", "ǫ", "Ǭ", "ǭ", "Ǯ", "ǯ", "ǰ",
   "Ǳ", "ǲ", "ǳ", "Ǵ", "ǵ", "Ƕ", "Ƿ", "Ǹ", "ǹ", "Ǻ", "ǻ", "Ǽ", "ǽ", "Ǿ", "ǿ",
   "ʀ", "ʁ", "ʂ", "ʃ", "ʄ", "ʅ", "ʆ", "ʇ", "ʈ", "ʉ", "ʊ", "ʋ", "ʌ", "ʍ", "ʎ",
   "ʏ", "ʐ", "ʑ", "ʒ", "ʓ", "ʕ", "ʖ", "ʗ", "ʘ", "ʙ", "ʚ", "ʛ", "ʜ", "ʝ", "ʞ",
   "ʟ", "ʠ", "ʡ", "ʢ", "ʣ", "ʤ", "ʥ", "ʦ", "ʧ", "ʨ", "ʩ", "ʪ", "ʫ", "ʬ", "ʭ",
   "ʮ", "ʯ", "Ά", "Έ", "Ή", "Ί", "Ό", "Ύ", "Ώ", "ΐ", "Α", "Β", "Γ", "Δ", "Ε",
   "Ζ", "Η", "Θ", "Ι", "Κ", "Λ", "Μ", "Ν", "Ξ", "Ο", "Π", "Ρ", "Σ", "Τ", "Υ",
   "Φ", "Χ", "Ψ", "Ω", "Ϊ", "Ϋ", "ά", "έ", "ή", "ί", "ΰ", "α", "β", "γ", "δ",
   "ε", "ζ", "η", "θ", "ι", "κ", "λ", "μ", "ν", "ξ", "ο", "π", "ρ", "ς", "σ",
   "τ", "υ", "φ", "χ", "ψ", "ω", "ϊ", "ϋ", "ό", "ύ", "ώ", "Ϗ", "ϐ", "ϑ", "ϒ",
   "ϓ", "ϔ", "ϕ", "ϖ", "ϗ", "Ϙ", "ϙ", "Ϛ", "ϛ", "Ϝ", "ϝ", "Ϟ", "ϟ", "Ϡ", "ϡ",
   "Ϣ", "ϣ", "Ϥ", "ϥ", "Ϧ", "ϧ", "Ϩ", "ϩ", "Ϫ", "ϫ", "Ϭ", "ϭ", "Ϯ", "ϯ", "ϰ",
   "ϱ", "ϲ", "ϳ", "ϴ", "ϵ", "Ϸ", "ϸ", "Ϲ", "Ϻ", "ϻ", "ϼ", "Ͻ", "Ͼ", "Ͽ", "Ҁ",
   "ҁ", "Ҋ", "ҋ", "Ҍ", "ҍ", "Ҏ", "ҏ", "Ґ", "ґ", "Ғ", "ғ", "Ҕ", "ҕ", "Җ", "җ",
   "Ҙ", "ҙ", "Қ", "қ", "Ҝ", "ҝ", "Ҟ", "ҟ", "Ҡ", "ҡ", "Ң", "ң", "Ҥ", "ҥ", "Ҧ",
   "ҧ", "Ҩ", "ҩ", "Ҫ", "ҫ", "Ҭ", "ҭ", "Ү", "ү", "Ұ", "ұ", "Ҳ", "ҳ", "Ҵ", "ҵ",
   "Ҷ", "ҷ", "Ҹ", "ҹ", "Һ", "һ", "Ҽ", "ҽ", "Ҿ", "ҿ", "Ӏ", "Ӂ", "ӂ", "Ӄ", "ӄ",
   "Ӆ", "ӆ", "Ӈ", "ӈ", "Ӊ", "ӊ", "Ӌ", "ӌ", "Ӎ", "ӎ", "ӏ", "Ӑ", "ӑ", "Ӓ", "ӓ",
   "Ӕ", "ӕ", "Ӗ", "ӗ", "Ә", "ә", "Ӛ", "ӛ", "Ӝ", "ӝ", "Ӟ", "ӟ", "Ӡ", "ӡ", "Ӣ",
   "ӣ", "Ӥ", "ӥ", "Ӧ", "ӧ", "Ө", "ө", "Ӫ", "ӫ", "Ӭ", "ӭ", "Ӯ", "ӯ", "Ӱ", "ӱ",
   "Ӳ", "ӳ", "Ӵ", "ӵ", "Ӷ", "ӷ", "Ӹ", "ӹ", "Ӻ", "ӻ", "Ӽ", "ӽ", "Ӿ", "ӿ", "ր",
   "ց", "ւ", "փ", "ք", "օ", "ֆ", "և", "ֈ", "Ⴀ", "Ⴁ", "Ⴂ", "Ⴃ", "Ⴄ", "Ⴅ", "Ⴆ",
   "Ⴇ", "Ⴈ", "Ⴉ", "Ⴊ", "Ⴋ", "Ⴌ", "Ⴍ", "Ⴎ", "Ⴏ", "Ⴐ", "Ⴑ", "Ⴒ", "Ⴓ", "Ⴔ", "Ⴕ",
   "Ⴖ", "Ⴗ", "Ⴘ", "Ⴙ", "Ⴚ", "Ⴛ", "Ⴜ", "Ⴝ", "Ⴞ", "Ⴟ", "Ⴠ", "Ⴡ", "Ⴢ", "Ⴣ", "Ⴤ",
   "Ⴥ", "Ⴧ", "Ⴭ", "ა", "ბ", "გ", "დ", "ე", "ვ", "ზ", "თ", "ი", "კ", "ლ", "მ",
   "ნ", "ო", "პ", "ჟ", "რ", "ს", "ტ", "უ", "ფ", "ქ", "ღ", "ყ", "შ", "ჩ", "ც",
   "ძ", "წ", "ჭ", "ხ", "ჯ", "ჰ", "ჱ", "ჲ", "ჳ", "ჴ", "ჵ", "ჶ", "ჷ", "ჸ", "ჹ",
   "ჺ", "ჽ", "ჾ", "ჿ", "Ꭰ", "Ꭱ", "Ꭲ", "Ꭳ", "Ꭴ", "Ꭵ", "Ꭶ", "Ꭷ", "Ꭸ", "Ꭹ", "Ꭺ",
   "Ꭻ", "Ꭼ", "Ꭽ", "Ꭾ", "Ꭿ", "Ꮀ", "Ꮁ", "Ꮂ", "Ꮃ", "Ꮄ", "Ꮅ", "Ꮆ", "Ꮇ", "Ꮈ", "Ꮉ",
   "Ꮊ", "Ꮋ", "Ꮌ", "Ꮍ", "Ꮎ", "Ꮏ", "Ꮐ", "Ꮑ", "Ꮒ", "Ꮓ", "Ꮔ", "Ꮕ", "Ꮖ", "Ꮗ", "Ꮘ",
   "Ꮙ", "Ꮚ", "Ꮛ", "Ꮜ", "Ꮝ", "Ꮞ", "Ꮟ", "Ꮠ", "Ꮡ", "Ꮢ", "Ꮣ", "Ꮤ", "Ꮥ", "Ꮦ", "Ꮧ",
   "Ꮨ", "Ꮩ", "Ꮪ", "Ꮫ", "Ꮬ", "Ꮭ", "Ꮮ", "Ꮯ", "Ꮰ", "Ꮱ", "Ꮲ", "Ꮳ", "Ꮴ", "Ꮵ", "Ꮶ",
   "Ꮷ", "Ꮸ", "Ꮹ", "Ꮺ", "Ꮻ", "Ꮼ", "Ꮽ", "Ꮾ", "Ꮿ", "Ᏸ", "Ᏹ", "Ᏺ", "Ᏻ", "Ᏼ", "Ᏽ",
   "ᏸ", "ᏹ", "ᏺ", "ᏻ", "ᏼ", "ᏽ", "ᲀ", "ᲁ", "ᲂ", "ᲃ", "ᲄ", "ᲅ", "ᲆ", "ᲇ", "ᲈ",
   "Ა", "Ბ", "Გ", "Დ", "Ე", "Ვ", "Ზ", "Თ", "Ი", "Კ", "Ლ", "Მ", "Ნ", "Ო", "Პ",
   "Ჟ", "Რ", "Ს", "Ტ", "Უ", "Ფ", "Ქ", "Ღ", "Ყ", "Შ", "Ჩ", "Ც", "Ძ", "Წ", "Ჭ",
   "Ხ", "Ჯ", "Ჰ", "Ჱ", "Ჲ", "Ჳ", "Ჴ", "Ჵ", "Ჶ", "Ჷ", "Ჸ", "Ჹ", "Ჺ", "Ჽ", "Ჾ",
   "Ჿ", "ᶀ", "ᶁ", "ᶂ", "ᶃ", "ᶄ", "ᶅ", "ᶆ", "ᶇ", "ᶈ", "ᶉ", "ᶊ", "ᶋ", "ᶌ", "ᶍ",
   "ᶎ", "ᶏ", "ᶐ", "ᶑ", "ᶒ", "ᶓ", "ᶔ", "ᶕ", "ᶖ", "ᶗ", "ᶘ", "ᶙ", "ᶚ", "Ẁ", "ẁ",
   "Ẃ", "ẃ", "Ẅ", "ẅ", "Ẇ", "ẇ", "Ẉ", "ẉ", "Ẋ", "ẋ", "Ẍ", "ẍ", "Ẏ", "ẏ", "Ẑ",
   "ẑ", "Ẓ", "ẓ", "Ẕ", "ẕ", "ẖ", "ẗ", "ẘ", "ẙ", "ẚ", "ẛ", "ẜ", "ẝ", "ẞ", "ẟ",
   "Ạ", "ạ", "Ả", "ả", "Ấ", "ấ", "Ầ", "ầ", "Ẩ", "ẩ", "Ẫ", "ẫ", "Ậ", "ậ", "Ắ",
   "ắ", "Ằ", "ằ", "Ẳ", "ẳ", "Ẵ", "ẵ", "Ặ", "ặ", "Ẹ", "ẹ", "Ẻ", "ẻ", "Ẽ", "ẽ",
   "Ế", "ế", "Ề", "ề", "Ể", "ể", "Ễ", "ễ", "Ệ", "ệ", "Ỉ", "ỉ", "Ị", "ị", "Ọ",
   "ọ", "Ỏ", "ỏ", "Ố", "ố", "Ồ", "ồ", "Ổ", "ổ", "Ỗ", "ỗ", "Ộ", "ộ", "Ớ", "ớ",
   "Ờ", "ờ", "Ở", "ở", "Ỡ", "ỡ", "Ợ", "ợ", "Ụ", "ụ", "Ủ", "ủ", "Ứ", "ứ", "Ừ",
   "ừ", "Ử", "ử", "Ữ", "ữ", "Ự", "ự", "Ỳ", "ỳ", "Ỵ", "ỵ", "Ỷ", "ỷ", "Ỹ", "ỹ",
   "Ỻ", "ỻ", "Ỽ", "ỽ", "Ỿ", "ỿ", "ᾀ", "ᾁ", "ᾂ", "ᾃ", "ᾄ", "ᾅ", "ᾆ", "ᾇ", "ᾈ",
   "ᾉ", "ᾊ", "ᾋ", "ᾌ", "ᾍ", "ᾎ", "ᾏ", "ᾐ", "ᾑ", "ᾒ", "ᾓ", "ᾔ", "ᾕ", "ᾖ", "ᾗ",
   "ᾘ", "ᾙ", "ᾚ", "ᾛ", "ᾜ", "ᾝ", "ᾞ", "ᾟ", "ᾠ", "ᾡ", "ᾢ", "ᾣ", "ᾤ", "ᾥ", "ᾦ",
   "ᾧ", "ᾨ", "ᾩ", "ᾪ", "ᾫ", "ᾬ", "ᾭ", "ᾮ", "ᾯ", "ᾰ", "ᾱ", "ᾲ", "ᾳ", "ᾴ", "ᾶ",
   "ᾷ", "Ᾰ", "Ᾱ", "Ὰ", "Ά", "ᾼ", "ι", "ῂ", "ῃ", "ῄ", "ῆ", "ῇ", "Ὲ", "Έ", "Ὴ",
   "Ή", "ῌ", "ῐ", "ῑ", "ῒ", "ΐ", "ῖ", "ῗ", "Ῐ", "Ῑ", "Ὶ", "Ί", "ῠ", "ῡ", "ῢ",
   "ΰ", "ῤ", "ῥ", "ῦ", "ῧ", "Ῠ", "Ῡ", "Ὺ", "Ύ", "Ῥ", "ῲ", "ῳ", "ῴ", "ῶ", "ῷ",
   "Ὸ", "Ό", "Ὼ", "Ώ", "ῼ", "Ↄ", "ↄ", "Ⓐ", "Ⓑ", "Ⓒ", "Ⓓ", "Ⓔ", "Ⓕ", "Ⓖ", "Ⓗ",
   "Ⓘ", "Ⓙ", "Ⓚ", "Ⓛ", "Ⓜ", "Ⓝ", "Ⓞ", "Ⓟ", "Ⓠ", "Ⓡ", "Ⓢ", "Ⓣ", "Ⓤ", "Ⓥ", "Ⓦ",
   "Ⓧ", "Ⓨ", "Ⓩ", "ⓐ", "ⓑ", "ⓒ", "ⓓ", "ⓔ", "ⓕ", "ⓖ", "ⓗ", "ⓘ", "ⓙ", "ⓚ", "ⓛ",
   "ⓜ", "ⓝ", "ⓞ", "ⓟ", "ⓠ", "ⓡ", "ⓢ", "ⓣ", "ⓤ", "ⓥ", "ⓦ", "ⓧ", "ⓨ", "ⓩ", "Ⲁ",
   "ⲁ", "Ⲃ", "ⲃ", "Ⲅ", "ⲅ", "Ⲇ", "ⲇ", "Ⲉ", "ⲉ", "Ⲋ", "ⲋ", "Ⲍ", "ⲍ", "Ⲏ", "ⲏ",
   "Ⲑ", "ⲑ", "Ⲓ", "ⲓ", "Ⲕ", "ⲕ", "Ⲗ", "ⲗ", "Ⲙ", "ⲙ", "Ⲛ", "ⲛ", "Ⲝ", "ⲝ", "Ⲟ",
   "ⲟ", "Ⲡ", "ⲡ", "Ⲣ", "ⲣ", "Ⲥ", "ⲥ", "Ⲧ", "ⲧ", "Ⲩ", "ⲩ", "Ⲫ", "ⲫ", "Ⲭ", "ⲭ",
   "Ⲯ", "ⲯ", "Ⲱ", "ⲱ", "Ⲳ", "ⲳ", "Ⲵ", "ⲵ", "Ⲷ", "ⲷ", "Ⲹ", "ⲹ", "Ⲻ", "ⲻ", "Ⲽ",
   "ⲽ", "Ⲿ", "ⲿ", "Ⳁ", "ⳁ", "Ⳃ", "ⳃ", "Ⳅ", "ⳅ", "Ⳇ", "ⳇ", "Ⳉ", "ⳉ", "Ⳋ", "ⳋ",
   "Ⳍ", "ⳍ", "Ⳏ", "ⳏ", "Ⳑ", "ⳑ", "Ⳓ", "ⳓ", "Ⳕ", "ⳕ", "Ⳗ", "ⳗ", "Ⳙ", "ⳙ", "Ⳛ",
   "ⳛ", "Ⳝ", "ⳝ", "Ⳟ", "ⳟ", "Ⳡ", "ⳡ", "Ⳣ", "ⳣ", "ⳤ", "Ⳬ", "ⳬ", "Ⳮ", "ⳮ", "Ⳳ",
   "ⳳ", "Ꚁ", "ꚁ", "Ꚃ", "ꚃ", "Ꚅ", "ꚅ", "Ꚇ", "ꚇ", "Ꚉ", "ꚉ", "Ꚋ", "ꚋ", "Ꚍ", "ꚍ",
   "Ꚏ", "ꚏ", "Ꚑ", "ꚑ", "Ꚓ", "ꚓ", "Ꚕ", "ꚕ", "Ꚗ", "ꚗ", "Ꚙ", "ꚙ", "Ꚛ", "ꚛ", "Ꞁ",
   "ꞁ", "Ꞃ", "ꞃ", "Ꞅ", "ꞅ", "Ꞇ", "ꞇ", "Ꞌ", "ꞌ", "Ɥ", "ꞎ", "Ꞑ", "ꞑ", "Ꞓ", "ꞓ",
   "ꞔ", "ꞕ", "Ꞗ", "ꞗ", "Ꞙ", "ꞙ", "Ꞛ", "ꞛ", "Ꞝ", "ꞝ", "Ꞟ", "ꞟ", "Ꞡ", "ꞡ", "Ꞣ",
   "ꞣ", "Ꞥ", "ꞥ", "Ꞧ", "ꞧ", "Ꞩ", "ꞩ", "Ɦ", "Ɜ", "Ɡ", "Ɬ", "Ɪ", "ꞯ", "Ʞ", "Ʇ",
   "Ʝ", "Ꭓ", "Ꞵ", "ꞵ", "Ꞷ", "ꞷ", "Ꞹ", "ꞹ", "Ꞻ", "ꞻ", "Ꞽ", "ꞽ", "Ꞿ", "ꞿ", "Ꟁ",
   "ꟁ", "Ꟃ", "ꟃ", "Ꞔ", "Ʂ", "Ᶎ", "Ꟈ", "ꟈ", "Ꟊ", "ꟊ", "Ꟑ", "ꟑ", "ꟓ", "ꟕ", "Ꟗ",
   "ꟗ", "Ꟙ", "ꟙ", "Ꟶ", "ꟶ", "ꟺ", "ꮀ", "ꮁ", "ꮂ", "ꮃ", "ꮄ", "ꮅ", "ꮆ", "ꮇ", "ꮈ",
   "ꮉ", "ꮊ", "ꮋ", "ꮌ", "ꮍ", "ꮎ", "ꮏ", "ꮐ", "ꮑ", "ꮒ", "ꮓ", "ꮔ", "ꮕ", "ꮖ", "ꮗ",
   "ꮘ", "ꮙ", "ꮚ", "ꮛ", "ꮜ", "ꮝ", "ꮞ", "ꮟ", "ꮠ", "ꮡ", "ꮢ", "ꮣ", "ꮤ", "ꮥ", "ꮦ",
   "ꮧ", "ꮨ", "ꮩ", "ꮪ", "ꮫ", "ꮬ", "ꮭ", "ꮮ", "ꮯ", "ꮰ", "ꮱ", "ꮲ", "ꮳ", "ꮴ", "ꮵ",
   "ꮶ", "ꮷ", "ꮸ", "ꮹ", "ꮺ", "ꮻ", "ꮼ", "ꮽ", "ꮾ", "ꮿ"}

\* the case-ignorable characters: marks, modifier letters and symbols,
\* format characters, the apostrophe, the full stop, the colon, ...
CaseIgnorable ==
  {"'", ".", ":", "^", "¨", "­", "¯", "´", "·", "¸", "ʰ", "ʱ", "ʲ", "ʳ", "ʴ",
   "ʵ", "ʶ", "ʷ", "ʸ", "ʹ", "ʺ", "ʻ", "ʼ", "ʽ", "ʾ", "ʿ", "ˀ", "ˁ", "˂", "˃",
   "˄", "˅", "ˆ", "ˇ", "ˈ", "ˉ", "ˊ", "ˋ", "ˌ", "ˍ", "ˎ", "ˏ", "ː", "ˑ", "˒",
   "˓", "˔", "˕", "˖", "˗", "˘", "˙", "˚", "˛", "˜", "˝", "˞", "˟", "ˠ", "ˡ",
   "ˢ", "ˣ", "ˤ", "˥", "˦", "˧", "˨", "˩", "˪", "˫", "ˬ", "˭", "ˮ", "˯", "˰",
   "˱", "˲", "˳", "˴", "˵", "˶", "˷", "˸", "˹", "˺", "˻", "˼", "˽", "˾", "˿",
   "΄", "΅", "·", "҃", "҄", "҅", "҆", "҇", "҈", "҉", "֑", "֒", "֓", "֔", "֕",
   "֖", "֗", "֘", "֙", "֚", "֛", "֜", "֝", "֞", "֟", "֠", "֡", "֢", "֣", "֤",
   "֥", "֦", "֧", "֨", "֩", "֪", "֫", "֬", "֭", "֮", "֯", "ְ", "ֱ", "ֲ", "ֳ",
   "ִ", "ֵ", "ֶ", "ַ", "ָ", "ֹ", "ֺ", "ֻ", "ּ", "ֽ", "ֿ", "ׁ", "ׂ", "ׄ", "ׅ",
   "ׇ", "״", "ۖ", "ۗ", "ۘ", "ۙ", "ۚ", "ۛ", "ۜ", "۝", "۟", "۠", "ۡ", "ۢ", "ۣ",
   "ۤ", "ۥ", "ۦ", "ۧ", "ۨ", "۪", "۫", "۬", "ۭ", "ަ", "ާ", "ި", "ީ", "ު", "ޫ",
   "ެ", "ޭ", "ޮ", "ޯ", "ް", "߫", "߬", "߭", "߮", "߯", "߰", "߱", "߲", "߳", "ߴ",
   "ߵ", "ߺ", "߽", "࢈", "࢐", "࢑", "࢘", "࢙", "࢚", "࢛", "࢜", "࢝", "࢞", "࢟", "ࣉ",
   "࣊", "࣋", "࣌", "࣍", "࣎", "࣏", "࣐", "࣑", "࣒", "࣓", "ࣔ", "ࣕ", "ࣖ", "ࣗ", "ࣘ",
   "ࣙ", "ࣚ", "ࣛ", "ࣜ", "ࣝ", "ࣞ", "ࣟ", "࣠", "࣡", "࣢", "ࣣ", "ࣤ", "ࣥ", "ࣦ", "ࣧ",
   "ࣨ", "ࣩ", "࣪", "࣫", "࣬", "࣭", "࣮", "࣯", "ࣰ", "ࣱ", "ࣲ", "ࣳ", "ࣴ", "ࣵ", "ࣶ",
   "ࣷ", "ࣸ", "ࣹ", "ࣺ", "ࣻ", "ࣼ", "ࣽ", "ࣾ", "ࣿ", "ঁ", "়", "ু", "ূ", "ৃ", "ৄ",
   "্", "ৢ", "ৣ", "৾", "ઁ", "ં", "઼", "ુ", "ૂ", "ૃ", "ૄ", "ૅ", "ે", "ૈ", "્",
   "ૢ", "ૣ", "ૺ", "ૻ", "ૼ", "૽", "૾", "૿", "ஂ", "ீ", "்", "ಁ", "಼", "ಿ", "ೆ",
   "ೌ", "್", "ೢ", "ೣ", "ඁ", "්", "ි", "ී", "ු", "ූ", "ັ", "ິ", "ີ", "ຶ", "ື",
   "ຸ", "ູ", "຺", "ົ", "ຼ", "ໆ", "່", "້", "໊", "໋", "໌", "ໍ", "ྀ", "ཱྀ", "ྂ",
   "ྃ", "྄", "྆", "྇", "ྍ", "ྎ", "ྏ", "ྐ", "ྑ", "ྒ", "ྒྷ", "ྔ", "ྕ", "ྖ", "ྗ",
   "ྙ", "ྚ", "ྛ", "ྜ", "ྜྷ", "ྞ", "ྟ", "ྠ", "ྡ", "ྡྷ", "ྣ", "ྤ", "ྥ", "ྦ", "ྦྷ",
   "ྨ", "ྩ", "ྪ", "ྫ", "ྫྷ", "ྭ", "ྮ", "ྯ", "ྰ", "ྱ", "ྲ", "ླ", "ྴ", "ྵ", "ྶ",
   "ྷ", "ྸ", "ྐྵ", "ྺ", "ྻ", "ྼ", "࿆", "ႂ", "ႅ", "ႆ", "ႍ", "ႝ", "ჼ", "឴", "឵",
   "ិ", "ី", "ឹ", "ឺ", "ុ", "ូ", "ួ", "ំ", "៉", "៊", "់", "៌", "៍", "៎", "៏",
   "័", "៑", "្", "៓", "ៗ", "៝", "ᢅ", "ᢆ", "ᢩ", "ᪧ", "᪰", "᪱", "᪲", "᪳", "᪴",
   "᪵", "᪶", "᪷", "᪸", "᪹", "᪺", "᪻", "᪼", "᪽", "᪾", "ᪿ", "ᫀ", "᫁", "᫂", "᫃",
   "᫄", "᫅", "᫆", "᫇", "᫈", "᫉", "᫊", "᫋", "ᫌ", "ᫍ", "ᫎ", "ᮀ", "ᮁ", "ᮢ", "ᮣ",
   "ᮤ", "ᮥ", "ᮨ", "ᮩ", "᮫", "ᮬ", "ᮭ", "᯦", "ᯨ", "ᯩ", "ᯭ", "ᯯ", "ᯰ", "ᯱ", "᳐",
   "᳑", "᳒", "᳔", "᳕", "᳖", "᳗", "᳘", "᳙", "᳚", "᳛", "᳜", "᳝", "᳞", "᳟", "᳠",
   "᳢", "᳣", "᳤", "᳥", "᳦", "᳧", "᳨", "᳭", "᳴", "᳸", "᳹", "ᶛ", "ᶜ", "ᶝ", "ᶞ",
   "ᶟ", "ᶠ", "ᶡ", "ᶢ", "ᶣ", "ᶤ", "ᶥ", "ᶦ", "ᶧ", "ᶨ", "ᶩ", "ᶪ", "ᶫ", "ᶬ", "ᶭ",
   "ᶮ", "ᶯ", "ᶰ", "ᶱ", "ᶲ", "ᶳ", "ᶴ", "ᶵ", "ᶶ", "ᶷ", "ᶸ", "ᶹ", "ᶺ", "ᶻ", "ᶼ",
   "ᶽ", "ᶾ", "ᶿ", "᷀", "᷁", "᷂", "᷃", "᷄", "᷅", "᷆", "᷇", "᷈", "᷉", "᷊", "᷋",
   "᷌", "᷍", "᷎", "᷏", "᷐", "᷑", "᷒", "ᷓ", "ᷔ", "ᷕ", "ᷖ", "ᷗ", "ᷘ", "ᷙ", "ᷚ",
   "ᷛ", "ᷜ", "ᷝ", "ᷞ", "ᷟ", "ᷠ", "ᷡ", "ᷢ", "ᷣ", "ᷤ", "ᷥ", "ᷦ", "ᷧ", "ᷨ", "ᷩ",
   "ᷪ", "ᷫ", "ᷬ", "ᷭ", "ᷮ", "ᷯ", "ᷰ", "ᷱ", "ᷲ", "ᷳ", "ᷴ", "᷵", "᷶", "᷷", "᷸",
   "᷹", "᷺", "᷻", "᷼", "᷽", "᷾", "᷿", "᾽", "᾿", "῀", "῁", "῍", "῎", "῏", "῝",
   "῞", "῟", "῭", "΅", "`", "´", "῾", "ₐ", "ₑ", "ₒ", "ₓ", "ₔ", "ₕ", "ₖ", "ₗ",
   "ₘ", "ₙ", "ₚ", "ₛ", "ₜ", "⃐", "⃑", "⃒", "⃓", "⃔", "⃕", "⃖", "⃗", "⃘", "⃙",
   "⃚", "⃛", "⃜", "⃝", "⃞", "⃟", "⃠", "⃡", "⃢", "⃣", "⃤", "⃥", "⃦", "⃧", "⃨",
   "⃩", "⃪", "⃫", "⃬", "⃭", "⃮", "⃯", "⃰", "⳯", "⳰", "⳱", "ⷠ", "ⷡ", "ⷢ", "ⷣ",
   "ⷤ", "ⷥ", "ⷦ", "ⷧ", "ⷨ", "ⷩ", "ⷪ", "ⷫ", "ⷬ", "ⷭ", "ⷮ", "ⷯ", "ⷰ", "ⷱ", "ⷲ",
   "ⷳ", "ⷴ", "ⷵ", "ⷶ", "ⷷ", "ⷸ", "ⷹ", "ⷺ", "ⷻ", "ⷼ", "ⷽ", "ⷾ", "ⷿ", "゙", "゚",
   "゛", "゜", "ゝ", "ゞ", "ー", "ヽ", "ヾ", "ꓸ", "ꓹ", "ꓺ", "ꓻ", "ꓼ", "ꓽ", "ꚜ", "ꚝ",
   "ꚞ", "ꚟ", "꛰", "꛱", "ꞈ", "꞉", "꞊", "ꟲ", "ꟳ", "ꟴ", "ꟸ", "ꟹ", "꣄", "ꣅ", "꣠",
   "꣡", "꣢", "꣣", "꣤", "꣥", "꣦", "꣧", "꣨", "꣩", "꣪", "꣫", "꣬", "꣭", "꣮", "꣯",
   "꣰", "꣱", "ꣿ", "ꦀ", "ꦁ", "ꦂ", "꦳", "ꦶ", "ꦷ", "ꦸ", "ꦹ", "ꦼ", "ꦽ", "ꧏ", "ꧥ",
   "ꧦ", "ꪰ", "ꪲ", "ꪳ", "ꪴ", "ꪷ", "ꪸ", "ꪾ", "꪿", "꫁", "ꫝ", "ꫬ", "ꫭ", "ꫳ", "ꫴ",
   "꫶", "ꯥ", "ꯨ", "꯭", "﮲", "﮳", "﮴", "﮵", "﮶", "﮷", "﮸", "﮹", "﮺", "﮻", "﮼",
   "﮽", "﮾", "﮿", "﯀", "﯁", "﯂", "﻿", "ﾞ", "ﾟ", "￣", "￹", "￺", "￻"}

\* the regular expression class [:.\s]
NumberDelims == {":", "."} \cup Whitespace

\* s[i-1] of Python, as a one-character string
Ch(s, i) == SubSeq(s, i, i)

\* s[n:]
Drop(s, n) == SubSeq(s, n + 1, Len(s))

\* s[:n]
Take(s, n) == SubSeq(s, 1, n)

\* s.startswith(p)
StartsWith(s, p) == Len(s) >= Len(p) /\ Take(s, Len(p)) = p

\* s.lstrip()
RECURSIVE LStrip(_)
LStrip(s) ==
  IF Len(s) > 0 /\ Ch(s, 1) \in Whitespace THEN LStrip(Drop(s, 1)) ELSE s

\* s.rstrip()
RECURSIVE RStrip(_)
RStrip(s) ==
  IF Len(s) > 0 /\ Ch(s, Len(s)) \in Whitespace
  THEN RStrip(Take(s, Len(s) - 1))
  ELSE s

\* s.strip()
Strip(s) == RStrip(LStrip(s))

\* the least element of a non-empty set of integers
Least(S) == CHOOSE j \in S : \A k \in S : j <= k

\* the greatest element of a non-empty set of integers
Greatest(S) == CHOOSE j \in S : \A k \in S : j >= k

\* the capital sigma at position i of s is a final one: the nearest character
\* before it that is not case-ignorable is cased, and the nearest one after
\* it, if any, is not
FinalSigma(s, i) ==
  LET before == {j \in 1..(i - 1) : Ch(s, j) \notin CaseIgnorable}
      after == {j \in (i + 1)..Len(s) : Ch(s, j) \notin CaseIgnorable}
  IN /\ before # {}
     /\ Ch(s, Greatest(before)) \in Cased
     /\ after = {} \/ Ch(s, Least(after)) \notin Cased

\* the lower case of the character at position i of s; none when no string
\* can hold it
LowerAt(s, i) ==
  LET c == Ch(s, i)
  IN IF c = "Σ" THEN (IF FinalSigma(s, i) THEN "ς" ELSE "σ")
     ELSE IF c \in DOMAIN LowerOf THEN LowerOf[c]
     ELSE IF c \in LowerUnwritable THEN CHOOSE none \in {} : TRUE
     ELSE c

\* the lower case of s[i-1:], within s
RECURSIVE LowerTail(_, _)
LowerTail(s, i) ==
  IF i > Len(s) THEN "" ELSE LowerAt(s, i) \o LowerTail(s, i + 1)

\* s.lower()
Lower(s) == LowerTail(s, 1)

\* the upper case of a character; none when no string can hold it
UpperChar(c) ==
  IF c \in DOMAIN UpperOf THEN UpperOf[c]
  ELSE IF c \in UpperUnwritable THEN CHOOSE none \in {} : TRUE
  ELSE c

\* s.upper()
RECURSIVE Upper(_)
Upper(s) ==
  IF Len(s) = 0 THEN s ELSE UpperChar(Ch(s, 1)) \o Upper(Drop(s, 1))

\* s.find(sub, i-1) + 1: the first position >= i at which sub occurs, 0 if none
Find(s, sub, i) ==
  LET hits == {j \in i..(Len(s) - Len(sub) + 1) : SubSeq(s, j, j + Len(sub) - 1) = sub}
  IN IF hits = {} THEN 0 ELSE Least(hits)

\* sub in s
Contains(s, sub) == Find(s, sub, 1) # 0

\* s.split(sep, 1)[1], for a separator that occurs in s
AfterFirst(s, sep) == Drop(s, Find(s, sep, 1) + Len(sep) - 1)

\* s.split(sep): the list of the pieces of s between the occurrences of sep
RECURSIVE Split(_, _)
Split(s, sep) ==
  LET i == Find(s, sep, 1)
  IN IF i = 0 THEN <<s>>
     ELSE <<Take(s, i - 1)>> \o Split(Drop(s, i + Len(sep) - 1), sep)

\* the first position >= i of s whose character is outside class (Len(s)+1 if
\* none): where a greedy  class*  that starts matching at i stops
SkipClass(s, i, class) ==
  Least({j \in i..(Len(s) + 1) : j > Len(s) \/ Ch(s, j) \notin class})

(***************************************************************************)
(* parse_questions (src/main.py lines 445-496).                            *)
(***************************************************************************)

\* the marker that opens the question text
START_MARKER == "---START"

\* the lookahead (?=\s*\d+[:.\s]) of the block separator, tried at position p
BlockAhead(s, p) ==
  LET d == SkipClass(s, p, Whitespace)
      e == SkipClass(s, d, Digits)
  IN e > d /\ e <= Len(s) /\ Ch(s, e) \in NumberDelims

\* the positions of the newlines of s that are followed by a question number
BlockCuts(s) == {i \in 1..Len(s) : Ch(s, i) = "\n" /\ BlockAhead(s, i + 1)}

\* re.split(r'\n(?=\s*\d+[:.\s])', s): s is cut at every newline that is
\* followed by a question number; from is where the current piece begins
RECURSIVE SplitBlocks(_, _)
SplitBlocks(s, from) ==
  LET cuts == {i \in BlockCuts(s) : i >= from}
  IN IF cuts = {} THEN <<SubSeq(s, from, Len(s))>>
     ELSE <<SubSeq(s, from, Least(cuts) - 1)>> \o SplitBlocks(s, Least(cuts) + 1)

\* [line.strip() for line in pieces if line.strip()]
RECURSIVE StripLines(_)
StripLines(pieces) ==
  IF pieces = <<>> THEN <<>>
  ELSE (IF Strip(Head(pieces)) = "" THEN <<>> ELSE <<Strip(Head(pieces))>>)
       \o StripLines(Tail(pieces))

\* the non-empty stripped lines of a block
BlockLines(block) == StripLines(Split(Strip(block), "\n"))

\* re.split(r'^\s*\d+[:.\s]+', line, 1)[-1].strip(): the prompt line without
\* its leading question number
PromptText(line) ==
  LET d == SkipClass(line, 1, Whitespace)
      e == SkipClass(line, d, Digits)
      f == SkipClass(line, e, NumberDelims)
  IN Strip(IF e > d /\ f > e THEN Drop(line, f - 1) ELSE line)

\* re.match(r'^[a-zA-Z]\)', line)
IsOptionLine(line) ==
  Len(line) >= 2 /\ Ch(line, 1) \in AsciiLetters /\ Ch(line, 2) = ")"

\* re.sub(r'^[a-zA-Z]\)\s*', '', line).strip(), for an option line
OptionText(line) == Strip(Drop(line, SkipClass(line, 3, Whitespace) - 1))

\* a pass that takes option lines only until the answer line has been seen
ClassifyLineByPosition(line, acc) ==
  IF StartsWith(Lower(line), "answer:")
  THEN [acc EXCEPT !.correct = Upper(Strip(AfterFirst(line, ":")))]
  ELSE IF StartsWith(Lower(line), "description:")
  THEN [acc EXCEPT !.description = Strip(AfterFirst(line, ":"))]
  ELSE IF IsOptionLine(line) /\ acc.correct = ""
  THEN [acc EXCEPT !.options = Append(@, OptionText(line))]
  ELSE acc

\* one pass of the loop over the lines after the prompt: acc holds options,
\* correct_answer and description
ClassifyLine(line, acc) ==
  IF StartsWith(Lower(line), "answer:")
  THEN [acc EXCEPT !.correct = Upper(Strip(AfterFirst(line, ":")))]
  ELSE IF StartsWith(Lower(line), "description:")
  THEN [acc EXCEPT !.description = Strip(AfterFirst(line, ":"))]
  ELSE IF IsOptionLine(line)
  THEN [acc EXCEPT !.options = Append(@, OptionText(line))]
  ELSE acc

\* the loop  for line in lines  over lines[i..]
RECURSIVE ScanLines(_, _, _)
ScanLines(lines, i, acc) ==
  IF i > Len(lines) THEN acc
  ELSE ScanLines(lines, i + 1, ClassifyLine(lines[i], acc))

\* the number of options a block needs, and a record keeps
NUM_OPTIONS == 4

\* a loop body that keeps every option found, without the slice options[:4]
ParseBlockKeepingAll(block) ==
  LET lines == BlockLines(block)
  IN IF lines = <<>> THEN <<>>
     ELSE LET q_text == PromptText(Head(lines))
              got == ScanLines(Tail(lines), 1,
                       [options |-> <<>>, correct |-> "", description |-> ""])
          IN IF /\ q_text # ""
                /\ Len(got.options) >= NUM_OPTIONS
                /\ got.correct # ""
                /\ got.description # ""
             THEN <<[question |-> q_text,
                     options |-> got.options,
                     correct |-> got.correct,
                     description |-> got.description]>>
             ELSE <<>>

\* the body of the loop over the blocks: the list of the records the block
\* adds to questions (one, or none when the block is empty or malformed)
ParseBlock(block) ==
  LET lines == BlockLines(block)
  IN IF lines = <<>> THEN <<>>
     ELSE LET q_text == PromptText(Head(lines))
              got == ScanLines(Tail(lines), 1,
                       [options |-> <<>>, correct |-> "", description |-> ""])
          IN IF /\ q_text # ""
                /\ Len(got.options) >= NUM_OPTIONS
                /\ got.correct # ""
                /\ got.description # ""
             THEN <<[question |-> q_text,
                     options |-> SubSeq(got.options, 1, NUM_OPTIONS),
                     correct |-> got.correct,
                     description |-> got.description]>>
             ELSE <<>>

\* a loop over the blocks that gives up at the first malformed block
RECURSIVE ParseBlocksUntilMalformed(_)
ParseBlocksUntilMalformed(blocks) ==
  IF blocks = <<>> THEN <<>>
  ELSE IF BlockLines(Head(blocks)) # <<>> /\ ParseBlock(Head(blocks)) = <<>>
  THEN <<>>
  ELSE ParseBlock(Head(blocks)) \o ParseBlocksUntilMalformed(Tail(blocks))

\* the loop  for block in question_blocks
RECURSIVE ParseBlocks(_)
ParseBlocks(blocks) ==
  IF blocks = <<>> THEN <<>>
  ELSE ParseBlock(Head(blocks)) \o ParseBlocks(Tail(blocks))

\* a parse of the whole text, marker or not
parse_whole_text(text) == ParseBlocks(SplitBlocks(text, 1))

\* parse_questions(text)
parse_questions(text) ==
  IF text = "" \/ ~Contains(text, START_MARKER) THEN <<>>
  ELSE ParseBlocks(SplitBlocks(AfterFirst(text, START_MARKER), 1))

(***************************************************************************)
(* Python values and containers used by the routes.                        *)
(***************************************************************************)

\* None
PyNone == [type |-> "NoneType", value |-> ""]

\* a str value, where the code may also hold None (a form field)
PyStr(s) == [type |-> "str", value |-> s]

\* the truth value of a form field: None and '' are false
Truthy(v) == v # PyNone /\ v # PyStr("")

\* {}
EmptyDict == <<>>

\* k in d
HasKey(d, k) == k \in DOMAIN d

\* d[k] = v
Put(d, k, v) == [x \in DOMAIN d \cup {k} |-> IF x = k THEN v ELSE d[x]]

\* d.pop(k, None), as the dict it leaves
Pop(d, k) == [x \in DOMAIN d \ {k} |-> d[x]]

\* d.get(k, default)
Get(d, k, default) == IF k \in DOMAIN d THEN d[k] ELSE default

\* str(i), for the integer keys of session['answers']
Str(i) == ToString(i)

\* list[:n] for n >= 0
SliceTo(list, n) == SubSeq(list, 1, IF n < Len(list) THEN n ELSE Len(list))

\* a draw with replacement (random.choices) in place of the shuffle
ShufflesWithRepeats(k) == [1..k -> 0..(k - 1)]

\* list(range(k)) after random.shuffle: every order of 0..k-1 is possible
Shuffles(k) ==
  {p \in [1..k -> 0..(k - 1)] : \A i, j \in 1..k : p[i] = p[j] => i = j}

(***************************************************************************)
(* Configuration and inputs.                                               *)
(***************************************************************************)

\* QUIZ_DURATION_SECONDS
QUIZ_DURATION_SECONDS == 3600

\* the largest configured question count tried
MaxCount == 2

\* the latest reading of the wall clock, in steps of the clock
MaxTime == 1

\* chr(65 + i) for the options of a question: the values of the radio inputs
OptionLabel(i) == <<"A", "B", "C", "D">>[i + 1]

\* the labels the question form offers
Labels == {OptionLabel(i) : i \in 0..(NUM_OPTIONS - 1)}

\* request.form.get('answer'): a label of the form, or None when no radio
\* input was sent.  The labels tried are the correct ones of the two
\* questions of DOC_TWO, each the wrong label for the other question and for
\* the question of DOC_ONE.
AnswerInputs == {PyStr("A"), PyStr("D"), PyNone}

\* request.form.get('action'): one of the two submit buttons (the timer adds
\* 'end' itself)
ActionInputs == {PyStr("next"), PyStr("end")}

\* documents the provider can hold
DOC_EMPTY == ""

DOC_NO_MARKER ==
  "Quiz\n1: Q1?\nA) a1\nB) b1\nC) c1\nD) d1\nAnswer: A\nDescription: e1\n"

DOC_ONE ==
  "---START\n1: What is 2+2?\nA) 3\nB) 4\nC) 5\nD) 6\nAnswer: B\nDescription: basic math"

DOC_TWO ==
  "Intro\n---START\n1. Q1?\nA) a1\nB) b1\nC) c1\nD) d1\nAnswer: a\nDescription: e1\n"
  \o "2. Q2?\nA) a2\nB) b2\nC) c2\nAnswer: C\nDescription: e2\n"
  \o "3. Q3?\nDescription: e3\nAnswer: D\nA) a3\nB) b3\nC) c3\nD) d3\nE) x3\n"

Documents == {DOC_EMPTY, DOC_NO_MARKER, DOC_ONE, DOC_TWO}

\* parse_questions(text) of each text the provider can return, worked out
\* once
Parsed == [text \in Documents |-> parse_questions(text)]

\* what get_document_text(DOC_ID) can do when the API client exists: return
\* a document's text, or raise HttpError
ProviderOutcomes ==
  {[ok |-> TRUE, text |-> d] : d \in Documents} \cup {[ok |-> FALSE, text |-> ""]}

(***************************************************************************)
(* State.                                                                  *)
(***************************************************************************)

VARIABLES
  ALL_QUESTIONS_CACHE,  \* the process-wide cache: None, or the parsed list
  NUM_QUESTIONS,        \* the configured question count, fixed at start-up
  service,              \* whether start-up built the API client (lines 421-427)
  threaded,             \* whether the server runs the handlers side by side
  now,                  \* time.time()
  fetches,              \* how many times get_document_text has been called
  clients,              \* each client's session, last request and response,
                        \* and the handler thread that serves it
  source,               \* SpecParse: what the text to parse is made of
  parsed                \* SpecParse: what parse_questions returned

vars ==
  <<ALL_QUESTIONS_CACHE, NUM_QUESTIONS, service, threaded, now, fetches, clients,
    source, parsed>>

\* what the routes leave alone: how the server runs them, and the state of
\* SpecParse
others == <<threaded, source, parsed>>

\* ALL_QUESTIONS_CACHE = None
CACHE_NONE == [loaded |-> FALSE, questions |-> <<>>]

\* a load that leaves the cache None when it got no question
CachedUnlessEmpty(questions) ==
  IF questions = <<>> THEN [loaded |-> FALSE, questions |-> <<>>]
  ELSE [loaded |-> TRUE, questions |-> questions]

\* ALL_QUESTIONS_CACHE = questions
Cached(questions) == [loaded |-> TRUE, questions |-> questions]

\* ALL_QUESTIONS_CACHE[question_index]
Question(question_index) == ALL_QUESTIONS_CACHE.questions[question_index + 1]

\* ALL_QUESTIONS_CACHE[question_index] raises IndexError
NoSuchQuestion(question_index) ==
  question_index >= Len(ALL_QUESTIONS_CACHE.questions)

\* a request to a route: GET requests carry no form
Req(route, method, answer, action) ==
  [route |-> route, method |-> method, answer |-> answer, action |-> action]

\* redirect(url_for(route))
Redirect(route) == [kind |-> "redirect", view |-> route, body |-> <<>>]

\* render_template_string(html) of the page of a route, with what it shows
Page(route, body) == [kind |-> "page", view |-> route, body |-> body]

\* the 500 response to a request whose handler raised
ServerError(route, raised) ==
  [kind |-> "error", view |-> route, body |-> [raised |-> raised]]

\* a client that has been sent nothing yet
NO_RESPONSE == [kind |-> "none", view |-> "", body |-> <<>>]

\* the clients of the server: app.run serves each request in a thread of its
\* own, so that the handlers of different clients run side by side
NumClients == 2

Clients == 1..NumClients

\* the client whose quiz is followed through every route; the other clients
\* send one request each, a first request to start_quiz
Observed == 1

\* a client that has sent nothing yet: pc is the statement its handler is at
\* ("idle" when no request of the client is being served), locals holds the
\* local variables of that handler
IdleClient ==
  [pc |-> "idle", session |-> EmptyDict, request |-> Req("", "", PyNone, PyNone),
   response |-> NO_RESPONSE, locals |-> EmptyDict]

\* the session, the last request and the last response of the client followed
session == clients[Observed].session

request == clients[Observed].request

response == clients[Observed].response

\* the lines of the blocks of a text stand as the blocks have them
AS_WRITTEN ==
  [reordered |-> FALSE, answer_at |-> 0, description_at |-> 0,
   answer_first |-> TRUE]

\* no text: parse_questions(None)
ABSENT ==
  [absent |-> TRUE, preamble |-> "", marker |-> FALSE, blocks |-> <<>>,
   order |-> AS_WRITTEN]

\* parse_questions has not been called
NOT_PARSED == [done |-> FALSE, questions |-> <<>>]

\* the process after start-up: the cache is None, and service is None when
\* google.auth.default raised DefaultCredentialsError
Started ==
  /\ ALL_QUESTIONS_CACHE = CACHE_NONE
  /\ NUM_QUESTIONS \in 0..MaxCount
  /\ service \in BOOLEAN
  /\ now = 0
  /\ fetches = 0
  /\ clients = [c \in Clients |-> IdleClient]
  /\ source = ABSENT
  /\ parsed = NOT_PARSED

\* the server as app.run(host, port, debug=False) runs it: threaded
Init == Started /\ threaded = TRUE

(***************************************************************************)
(* The routes.  A handler is run statement by statement where it reads or  *)
(* writes ALL_QUESTIONS_CACHE, calls the provider or reads the clock:      *)
(* between two such statements the handlers of other clients can run and   *)
(* the clock can advance.  What a handler does to its own session and      *)
(* locals in between is part of the step.  The session a handler has       *)
(* changed is saved with its response, a 500 too.                          *)
(***************************************************************************)

\* the seconds that pass between two readings of the clock: a request can
\* come after the quiz time of an earlier one has run out
ClockStep == QUIZ_DURATION_SECONDS + 1

\* the clock advances
Tick ==
  /\ now < MaxTime * ClockStep
  /\ now' = now + ClockStep
  /\ UNCHANGED <<ALL_QUESTIONS_CACHE, NUM_QUESTIONS, service, fetches, clients>>
  /\ UNCHANGED others

\* no request of a client other than c is being served
Alone(c) == \A d \in Clients \ {c} : clients[d].pc = "idle"

\* the server takes up a request of client c to the route: the last request
\* of c has been answered, and a server that is not threaded is serving no
\* other request
Sends(c, route) ==
  /\ clients[c].pc = "idle"
  /\ c # Observed => route = "start_quiz" /\ clients[c].response = NO_RESPONSE
  /\ threaded \/ Alone(c)

\* the clients after the handler of c has returned resp, its session being
\* sess
Return(c, req, sess, resp) ==
  [clients EXCEPT ![c] =
     [pc |-> "idle", session |-> sess, request |-> req, response |-> resp,
      locals |-> EmptyDict]]

\* the clients after the handler of c has moved on to the statement pc
Goto(c, req, pc, locals) ==
  [clients EXCEPT ![c] =
     [pc |-> pc, session |-> clients[c].session, request |-> req,
      response |-> clients[c].response, locals |-> locals]]

\* GET /
home(c) ==
  /\ Sends(c, "home")
  /\ clients' = Return(c, Req("home", "GET", PyNone, PyNone), clients[c].session,
                       Page("home", [minutes |-> QUIZ_DURATION_SECONDS \div 60]))
  /\ UNCHANGED <<ALL_QUESTIONS_CACHE, NUM_QUESTIONS, service, now, fetches>>
  /\ UNCHANGED others

\* question_indices[:NUM_QUESTIONS] after the shuffle: the selections a bank
\* of k questions can give
Selections(k, count) == {SliceTo(p, count) : p \in Shuffles(k)}

\* a start that keeps the answers dict of a session that has one
StartedSessionKeepingAnswers(sess, quiz_indices, time) ==
  Put(Put(Put(Put(sess, "quiz_indices", quiz_indices),
                  "answers", Get(sess, "answers", EmptyDict)),
              "current", 0),
          "start_time", time)

\* session after the four assignments that begin a quiz
StartedSession(sess, quiz_indices, time) ==
  Put(Put(Put(Put(sess, "quiz_indices", quiz_indices),
                  "answers", EmptyDict),
              "current", 0),
          "start_time", time)

\* the request a start_quiz handler serves
START_REQUEST == Req("start_quiz", "GET", PyNone, PyNone)

\* the page of line 529
CriticalError(raised) ==
  Page("start_quiz", [error |-> "A critical error occurred", raised |-> raised])

\* the page of line 531
NO_QUESTIONS == Page("start_quiz", [error |-> "No questions could be loaded"])

\* a test of line 530 that lets every cache through
NoQuestionsUnchecked(questions) == FALSE

\* not ALL_QUESTIONS_CACHE, of a cache that is a list
NoQuestions(questions) == questions = <<>>

\* lines 519-522: if ALL_QUESTIONS_CACHE is None; and, on that branch,
\* if not service: raise RuntimeError
StartTestNone(c) ==
  /\ Sends(c, "start_quiz")
  /\ clients' =
       IF ALL_QUESTIONS_CACHE.loaded THEN Goto(c, START_REQUEST, "test", EmptyDict)
       ELSE IF service THEN Goto(c, START_REQUEST, "fetch", EmptyDict)
       ELSE Goto(c, START_REQUEST, "except", [raised |-> "RuntimeError"])
  /\ UNCHANGED <<ALL_QUESTIONS_CACHE, NUM_QUESTIONS, service, now, fetches>>
  /\ UNCHANGED others

\* lines 523-524, right-hand side: the provider call, which the thread waits
\* for, and the parse of its text
StartFetch(c) ==
  /\ clients[c].pc = "fetch"
  /\ \E got \in ProviderOutcomes :
       /\ fetches' = fetches + 1
       /\ clients' =
            IF got.ok
            THEN Goto(c, START_REQUEST, "store",
                      [questions |-> Parsed[got.text]])
            ELSE Goto(c, START_REQUEST, "except", [raised |-> "HttpError"])
  /\ UNCHANGED <<ALL_QUESTIONS_CACHE, NUM_QUESTIONS, service, now>>
  /\ UNCHANGED others

\* line 524, the assignment: ALL_QUESTIONS_CACHE = the list just parsed
\* (the print of line 525 reads the cache again and changes nothing)
StartStore(c) ==
  /\ clients[c].pc = "store"
  /\ ALL_QUESTIONS_CACHE' = Cached(clients[c].locals.questions)
  /\ clients' = Goto(c, START_REQUEST, "test", EmptyDict)
  /\ UNCHANGED <<NUM_QUESTIONS, service, now, fetches>>
  /\ UNCHANGED others

\* lines 526-529: ALL_QUESTIONS_CACHE = [] and the critical-error page
StartExcept(c) ==
  /\ clients[c].pc = "except"
  /\ ALL_QUESTIONS_CACHE' = Cached(<<>>)
  /\ clients' = Return(c, START_REQUEST, clients[c].session,
                       CriticalError(clients[c].locals.raised))
  /\ UNCHANGED <<NUM_QUESTIONS, service, now, fetches>>
  /\ UNCHANGED others

\* lines 530-531: if not ALL_QUESTIONS_CACHE
StartTestEmpty(c) ==
  /\ clients[c].pc = "test"
  /\ clients' =
       IF NoQuestions(ALL_QUESTIONS_CACHE.questions)
       THEN Return(c, START_REQUEST, clients[c].session, NO_QUESTIONS)
       ELSE Goto(c, START_REQUEST, "shuffle", EmptyDict)
  /\ UNCHANGED <<ALL_QUESTIONS_CACHE, NUM_QUESTIONS, service, now, fetches>>
  /\ UNCHANGED others

\* lines 533-534: question_indices = list(range(len(ALL_QUESTIONS_CACHE))),
\* over the cache as it is now, and the shuffle
StartShuffle(c) ==
  /\ clients[c].pc = "shuffle"
  /\ \E question_indices \in Shuffles(Len(ALL_QUESTIONS_CACHE.questions)) :
       clients' = Goto(c, START_REQUEST, "begin",
                       [question_indices |-> question_indices])
  /\ UNCHANGED <<ALL_QUESTIONS_CACHE, NUM_QUESTIONS, service, now, fetches>>
  /\ UNCHANGED others

\* lines 536-541: the four session assignments, start_time being the time
\* read at line 539, and the redirect
StartBegin(c) ==
  /\ clients[c].pc = "begin"
  /\ clients' = Return(c, START_REQUEST,
                       StartedSession(clients[c].session,
                                      SliceTo(clients[c].locals.question_indices,
                                              NUM_QUESTIONS),
                                      now),
                       Redirect("question"))
  /\ UNCHANGED <<ALL_QUESTIONS_CACHE, NUM_QUESTIONS, service, now, fetches>>
  /\ UNCHANGED others

\* GET /start_quiz
start_quiz(c) ==
  \/ StartTestNone(c)
  \/ StartFetch(c)
  \/ StartStore(c)
  \/ StartExcept(c)
  \/ StartTestEmpty(c)
  \/ StartShuffle(c)
  \/ StartBegin(c)

\* a question page whose timer counts from the time the page is rendered
QuestionPageFromNow(sess, current_step, quiz_indices) ==
  LET q == Question(quiz_indices[current_step + 1])
  IN Page("question",
          [number |-> current_step + 1,
           of |-> Len(quiz_indices),
           question |-> q.question,
           inputs |-> [i \in 1..Len(q.options) |->
                         [label |-> OptionLabel(i - 1), text |-> q.options[i]]],
           endTime |-> now + QUIZ_DURATION_SECONDS])

\* the question page: its heading, the question, the radio inputs and the
\* end time the timer script counts down to
QuestionPage(sess, current_step, quiz_indices) ==
  LET q == Question(quiz_indices[current_step + 1])
  IN Page("question",
          [number |-> current_step + 1,
           of |-> Len(quiz_indices),
           question |-> q.question,
           inputs |-> [i \in 1..Len(q.options) |->
                         [label |-> OptionLabel(i - 1), text |-> q.options[i]]],
           endTime |-> Get(sess, "start_time", now) + QUIZ_DURATION_SECONDS])

\* a guard that also turns away a session whose quiz time has run out
NoQuizOrExpired(sess) ==
  \/ ~HasKey(sess, "quiz_indices")
  \/ ~HasKey(sess, "start_time")
  \/ now > sess.start_time + QUIZ_DURATION_SECONDS

\* 'quiz_indices' not in session or 'start_time' not in session
NoQuiz(sess) == ~HasKey(sess, "quiz_indices") \/ ~HasKey(sess, "start_time")

\* session.get('current', 0)
CurrentStep(sess) == Get(sess, "current", 0)

\* current_step >= len(quiz_indices): nothing is left to ask
QuizOver(current_step, quiz_indices) == current_step >= Len(quiz_indices)

\* the answer filed under the step after the one it was given at
AnsweredUnderNextStep(sess, current_step, answer) ==
  [sess EXCEPT !.answers = Put(@, Str(current_step + 1), answer)]

\* session after  session['answers'][str(current_step)] = answer
Answered(sess, current_step, answer) ==
  [sess EXCEPT !.answers = Put(@, Str(current_step), answer)]

\* a submission that leaves the cursor where it was
NotAdvanced(sess, current_step) == Put(sess, "current", current_step)

\* a submission that skips a step
AdvancedByTwo(sess, current_step) == Put(sess, "current", current_step + 2)

\* session after  session['current'] = current_step + 1
Advanced(sess, current_step) == Put(sess, "current", current_step + 1)

\* > in place of >= in the test that ends the quiz after a submission
AfterSubmitOffByOne(current, quiz_indices) ==
  IF current > Len(quiz_indices) THEN Redirect("summary") ELSE Redirect("question")

\* where a submission that is not an 'end' is sent, current being the new
\* session['current']
AfterSubmit(current, quiz_indices) ==
  IF current >= Len(quiz_indices) THEN Redirect("summary") ELSE Redirect("question")

\* GET or POST /question: the GET reads ALL_QUESTIONS_CACHE once, at line 570,
\* and raises IndexError when the index is not one of the cache
question(c) ==
  \E method \in {"GET", "POST"}, answer \in AnswerInputs,
     action \in ActionInputs \cup {PyNone} :
    LET req == Req("question", method, answer, action)
        sess == clients[c].session
    IN /\ Sends(c, "question")
       /\ method = "GET" => answer = PyNone /\ action = PyNone
       /\ method = "POST" => action # PyNone
       /\ IF NoQuiz(sess)
          THEN clients' = Return(c, req, sess, Redirect("home"))
          ELSE LET current_step == CurrentStep(sess)
                   quiz_indices == sess.quiz_indices
               IN IF QuizOver(current_step, quiz_indices)
                  THEN clients' = Return(c, req, sess, Redirect("summary"))
                  ELSE IF method = "POST"
                  THEN IF action = PyStr("end")
                       THEN clients' =
                              Return(c, req, Answered(sess, current_step, answer),
                                     Redirect("summary"))
                       ELSE clients' =
                              Return(c, req,
                                     Advanced(Answered(sess, current_step, answer),
                                              current_step),
                                     AfterSubmit(current_step + 1, quiz_indices))
                  ELSE IF NoSuchQuestion(quiz_indices[current_step + 1])
                  THEN clients' =
                         Return(c, req, sess, ServerError("question", "IndexError"))
                  ELSE clients' =
                         Return(c, req, sess,
                                QuestionPage(sess, current_step, quiz_indices))
       /\ UNCHANGED <<ALL_QUESTIONS_CACHE, NUM_QUESTIONS, service, now, fetches>>
       /\ UNCHANGED others

\* an entry numbered from 0, like the steps, in place of from 1
IncorrectEntryFromZero(i, q, user_ans) ==
  [index |-> i, question |-> q.question, options |-> q.options,
   correct |-> q.correct,
   user |-> IF Truthy(user_ans) THEN user_ans.value ELSE "Not Answered",
   description |-> q.description]

\* an entry that shows the stored answer as it is, without  or 'Not Answered'
IncorrectEntryRaw(i, q, user_ans) ==
  [index |-> i + 1, question |-> q.question, options |-> q.options,
   correct |-> q.correct, user |-> user_ans.value, description |-> q.description]

\* the entry summary appends to incorrect for step i
IncorrectEntry(i, q, user_ans) ==
  [index |-> i + 1, question |-> q.question, options |-> q.options,
   correct |-> q.correct,
   user |-> IF Truthy(user_ans) THEN user_ans.value ELSE "Not Answered",
   description |-> q.description]

\* correct_count = 0 and incorrect = [], lines 631-632
NO_TALLY == [correct_count |-> 0, incorrect |-> <<>>]

\* a pass that looks the question up by the step, not by the selected index
TallyByStep(quiz_indices, answers, i, tally) ==
  LET q == Question(i)
      user_ans == Get(answers, Str(i), PyNone)
  IN IF user_ans = PyStr(q.correct)
     THEN [tally EXCEPT !.correct_count = @ + 1]
     ELSE [tally EXCEPT !.incorrect = Append(@, IncorrectEntry(i, q, user_ans))]

\* one pass of the loop  for i, question_index in enumerate(quiz_indices),
\* the one of step i, over the cache as it is now: tally holds correct_count
\* and incorrect
Tally(quiz_indices, answers, i, tally) ==
  LET q == Question(quiz_indices[i + 1])
      user_ans == Get(answers, Str(i), PyNone)
  IN IF user_ans = PyStr(q.correct)
     THEN [tally EXCEPT !.correct_count = @ + 1]
     ELSE [tally EXCEPT !.incorrect = Append(@, IncorrectEntry(i, q, user_ans))]

\* the passes of the loop from step i on, over a cache that stays as it is
RECURSIVE TallyFrom(_, _, _, _)
TallyFrom(quiz_indices, answers, i, tally) ==
  IF i >= Len(quiz_indices) THEN tally
  ELSE TallyFrom(quiz_indices, answers, i + 1,
                 Tally(quiz_indices, answers, i, tally))

\* a percent that scores the empty selection as all right
PercentFullWhenEmpty(correct_count, total) ==
  IF total > 0 THEN (2 * 10000 * correct_count + total) \div (2 * total) ELSE 10000

\* percent as the page prints it, f"{percent:.2f}", in hundredths of a percent
\* (no total up to 15 gives a tie between two hundredths)
Percent(correct_count, total) ==
  IF total > 0 THEN (2 * 10000 * correct_count + total) \div (2 * total) ELSE 0

\* the request a summary handler serves
SUMMARY_REQUEST == Req("summary", "GET", PyNone, PyNone)

\* lines 645-656: the session with the incorrect list stored, and the page
SummaryPage(c, sess, tally) ==
  LET total == Len(Get(sess, "quiz_indices", <<>>))
  IN Return(c, SUMMARY_REQUEST, Put(sess, "incorrect", tally.incorrect),
            Page("summary",
                 [total |-> total,
                  correct |-> tally.correct_count,
                  incorrect |-> total - tally.correct_count,
                  percent |-> Percent(tally.correct_count, total)]))

\* lines 634-656 from the pass of step i on, up to the next read of
\* ALL_QUESTIONS_CACHE: the pass reads the cache once, at line 635, and raises
\* IndexError when the index is not one of the cache; sess is the session
\* without its start_time
SummaryLoop(c, sess, i, tally) ==
  LET quiz_indices == Get(sess, "quiz_indices", <<>>)
      answers == Get(sess, "answers", EmptyDict)
  IN IF i >= Len(quiz_indices) THEN SummaryPage(c, sess, tally)
     ELSE IF NoSuchQuestion(quiz_indices[i + 1])
     THEN Return(c, SUMMARY_REQUEST, sess, ServerError("summary", "IndexError"))
     ELSE IF i + 1 >= Len(quiz_indices)
     THEN SummaryPage(c, sess, Tally(quiz_indices, answers, i, tally))
     ELSE Goto(c, SUMMARY_REQUEST, "summary",
               [i |-> i + 1, tally |-> Tally(quiz_indices, answers, i, tally)])

\* a summary without the guard of lines 625-626: the defaults of session.get
\* carry it through a session that has no selection
summaryUnguarded(c) ==
  /\ Sends(c, "summary")
  /\ clients' = SummaryLoop(c, Pop(clients[c].session, "start_time"), 0, NO_TALLY)
  /\ UNCHANGED <<ALL_QUESTIONS_CACHE, NUM_QUESTIONS, service, now, fetches>>
  /\ UNCHANGED others

\* GET /summary, lines 625-635: the guard, the pop of start_time and the
\* loop up to its second read of the cache
summary(c) ==
  /\ Sends(c, "summary")
  /\ clients' =
       IF ~HasKey(clients[c].session, "quiz_indices")
       THEN Return(c, SUMMARY_REQUEST, clients[c].session, Redirect("home"))
       ELSE SummaryLoop(c, Pop(clients[c].session, "start_time"), 0, NO_TALLY)
  /\ UNCHANGED <<ALL_QUESTIONS_CACHE, NUM_QUESTIONS, service, now, fetches>>
  /\ UNCHANGED others

\* GET /summary, the loop from a later pass on
SummaryNext(c) ==
  /\ clients[c].pc = "summary"
  /\ clients' = SummaryLoop(c, Pop(clients[c].session, "start_time"),
                            clients[c].locals.i, clients[c].locals.tally)
  /\ UNCHANGED <<ALL_QUESTIONS_CACHE, NUM_QUESTIONS, service, now, fetches>>
  /\ UNCHANGED others

\* a review that tallies the answers again in place of reading the stored list
reviewRetallied(c) ==
  /\ Sends(c, "review")
  /\ clients' =
       Return(c, Req("review", "GET", PyNone, PyNone), clients[c].session,
              IF ~HasKey(clients[c].session, "incorrect")
              THEN Redirect("summary")
              ELSE Page("review",
                        [incorrect |->
                           TallyFrom(clients[c].session.quiz_indices,
                                     clients[c].session.answers, 0,
                                     NO_TALLY).incorrect]))
  /\ UNCHANGED <<ALL_QUESTIONS_CACHE, NUM_QUESTIONS, service, now, fetches>>
  /\ UNCHANGED others

\* GET /review
review(c) ==
  /\ Sends(c, "review")
  /\ clients' =
       Return(c, Req("review", "GET", PyNone, PyNone), clients[c].session,
              IF ~HasKey(clients[c].session, "incorrect")
              THEN Redirect("summary")
              ELSE Page("review",
                        [incorrect |-> Get(clients[c].session, "incorrect", <<>>)]))
  /\ UNCHANGED <<ALL_QUESTIONS_CACHE, NUM_QUESTIONS, service, now, fetches>>
  /\ UNCHANGED others

\* the clock, or a step of the handler thread that serves a client: the
\* threads take their steps in any order
Next ==
  \/ Tick
  \/ \E c \in Clients :
       \/ home(c)
       \/ start_quiz(c)
       \/ question(c)
       \/ summary(c)
       \/ SummaryNext(c)
       \/ review(c)

Spec == Init /\ [][Next]_vars

(***************************************************************************)
(* Sequential executions: the same handlers on a server that serves one    *)
(* request at a time.                                                      *)
(***************************************************************************)

SequentialInit == Started /\ threaded = FALSE

SpecSequential == SequentialInit /\ [][Next]_vars

(***************************************************************************)
(* parse_questions on its own, applied to texts assembled from a preamble, *)
(* the start marker and question blocks.                                   *)
(***************************************************************************)

\* the most blocks a text is assembled from
MaxBlocks == 2

\* what a question block of the document is written from: its number with
\* the delimiter, its prompt, its option texts, the answer as written and
\* the label that stands for, its description, and whether the description
\* and answer lines come before the option lines
BLOCK_PLAIN ==
  [number |-> "1: ", prompt |-> "Q1?", options |-> <<"a1", "b1", "c1", "d1">>,
   answer |-> "b", label |-> "B", description |-> "e1", tail_first |-> FALSE]

BLOCK_TAIL_FIRST ==
  [number |-> "2. ", prompt |-> "Q2?", options |-> <<"a2", "b2", "c2", "d2">>,
   answer |-> "C", label |-> "C", description |-> "e2", tail_first |-> TRUE]

BLOCK_FIVE ==
  [number |-> "3 ", prompt |-> "Q3?",
   options |-> <<"a3", "b3", "c3", "d3", "x3">>,
   answer |-> "A", label |-> "A", description |-> "e3", tail_first |-> FALSE]

BLOCK_NO_PROMPT ==
  [number |-> "4:", prompt |-> "", options |-> <<"a4", "b4", "c4", "d4">>,
   answer |-> "D", label |-> "D", description |-> "e4", tail_first |-> FALSE]

BLOCK_THREE ==
  [number |-> "5: ", prompt |-> "Q5?", options |-> <<"a5", "b5", "c5">>,
   answer |-> "A", label |-> "A", description |-> "e5", tail_first |-> FALSE]

BLOCK_NO_ANSWER ==
  [number |-> "6. ", prompt |-> "Q6?", options |-> <<"a6", "b6", "c6", "d6">>,
   answer |-> "", label |-> "", description |-> "e6", tail_first |-> FALSE]

BLOCK_NO_DESCRIPTION ==
  [number |-> "7: ", prompt |-> "Q7?", options |-> <<"a7", "b7", "c7", "d7">>,
   answer |-> "B", label |-> "B", description |-> "", tail_first |-> TRUE]

\* a block whose answer line names its fifth option
BLOCK_ANSWER_E ==
  [number |-> "8: ", prompt |-> "Q8?",
   options |-> <<"a8", "b8", "c8", "d8", "x8">>,
   answer |-> "e", label |-> "E", description |-> "e8", tail_first |-> FALSE]

\* a block written with the whitespace of a document: a soft line break
\* (U+000B) before its number and as the delimiter after it, and around the
\* answer a U+001C and a soft line break
BLOCK_SOFT_BREAK ==
  [number |-> "10", prompt |-> "Q10?",
   options |-> <<"a10", "b10", "c10", "d10">>,
   answer |-> "d", label |-> "D", description |-> "e10",
   tail_first |-> FALSE]

\* a block numbered in the digits of other scripts (U+06F1, U+09E8) whose
\* answer is written in letters outside ASCII: U+00E9, whose upper case is
\* U+00C9, and U+00DF, whose upper case is SS
BLOCK_LOCAL_DIGITS ==
  [number |-> "۱২: ", prompt |-> "Q11?",
   options |-> <<"a11", "b11", "c11", "d11">>,
   answer |-> "éß", label |-> "ÉSS", description |-> "e11",
   tail_first |-> FALSE]

\* a well-formed block written before the start marker
BLOCK_BEFORE ==
  [number |-> "9: ", prompt |-> "Q0?", options |-> <<"a0", "b0", "c0", "d0">>,
   answer |-> "A", label |-> "A", description |-> "e0", tail_first |-> FALSE]

BlockKinds ==
  {BLOCK_PLAIN, BLOCK_TAIL_FIRST, BLOCK_FIVE, BLOCK_NO_PROMPT, BLOCK_THREE,
   BLOCK_NO_ANSWER, BLOCK_NO_DESCRIPTION, BLOCK_ANSWER_E, BLOCK_SOFT_BREAK,
   BLOCK_LOCAL_DIGITS}

\* the letters of the option lines
Letters == <<"A", "B", "C", "D", "E">>

\* the option lines options[i..] of a block, one "X) text" per line
RECURSIVE OptionLines(_, _)
OptionLines(options, i) ==
  IF i > Len(options) THEN ""
  ELSE Letters[i] \o ") " \o options[i] \o "\n" \o OptionLines(options, i + 1)

\* the text of a block
RenderBlock(b) ==
  LET head == b.number \o b.prompt \o "\n"
      answer == IF b.answer = "" THEN "" ELSE "Answer: " \o b.answer \o "\n"
      description ==
        IF b.description = "" THEN ""
        ELSE "Description: " \o b.description \o "\n"
  IN IF b.tail_first
     THEN head \o description \o answer \o OptionLines(b.options, 1)
     ELSE head \o OptionLines(b.options, 1) \o answer \o description

\* the text of a sequence of blocks
RECURSIVE RenderBlocks(_)
RenderBlocks(blocks) ==
  IF blocks = <<>> THEN ""
  ELSE RenderBlock(Head(blocks)) \o RenderBlocks(Tail(blocks))

\* what a text can hold before the start marker: nothing, a line that nearly
\* spells the marker, a whole question block
Preambles == {"", "Quiz --START\n", RenderBlock(BLOCK_BEFORE)}

\* the orders the lines of a block are put in: the answer line after
\* answer_at option lines, the description line after description_at option
\* lines (after the last one when the block has fewer), the option lines in
\* their own order; answer_first orders the two when they meet
Orders ==
  {o \in [reordered : {TRUE}, answer_at : 0..NUM_OPTIONS,
          description_at : 0..NUM_OPTIONS, answer_first : BOOLEAN] :
     o.answer_at = o.description_at \/ o.answer_first}

\* the lines of block b after its first i option lines, in an order
RECURSIVE OrderedLines(_, _, _)
OrderedLines(b, order, i) ==
  LET last == i >= Len(b.options)
      answer ==
        IF b.answer # "" /\ (order.answer_at = i \/ (last /\ order.answer_at > i))
        THEN "Answer: " \o b.answer \o "\n" ELSE ""
      description ==
        IF /\ b.description # ""
           /\ (order.description_at = i \/ (last /\ order.description_at > i))
        THEN "Description: " \o b.description \o "\n" ELSE ""
  IN (IF order.answer_first THEN answer \o description
      ELSE description \o answer)
     \o (IF last THEN ""
         ELSE Letters[i + 1] \o ") " \o b.options[i + 1] \o "\n"
              \o OrderedLines(b, order, i + 1))

\* the text of a sequence of blocks whose lines are put in an order
RECURSIVE RenderOrdered(_, _)
RenderOrdered(blocks, order) ==
  IF blocks = <<>> THEN ""
  ELSE Head(blocks).number \o Head(blocks).prompt \o "\n"
       \o OrderedLines(Head(blocks), order, 0)
       \o RenderOrdered(Tail(blocks), order)

\* the texts parse_questions is given: the blocks as written, one block
\* with its lines in another order, and no text at all
Sources ==
  {ABSENT} \cup
  {[absent |-> FALSE, preamble |-> p, marker |-> m, blocks |-> bs,
    order |-> AS_WRITTEN] :
     p \in Preambles, m \in BOOLEAN,
     bs \in UNION {[1..n -> BlockKinds] : n \in 0..MaxBlocks}} \cup
  {[absent |-> FALSE, preamble |-> "", marker |-> TRUE, blocks |-> <<b>>,
    order |-> o] :
     b \in BlockKinds, o \in Orders}

\* the text of a source
TextOf(src) ==
  src.preamble \o (IF src.marker THEN START_MARKER \o "\n" ELSE "")
    \o (IF src.order.reordered THEN RenderOrdered(src.blocks, src.order)
        ELSE RenderBlocks(src.blocks))

\* the argument parse_questions is called with
Argument(src) == IF src.absent THEN PyNone ELSE PyStr(TextOf(src))

\* parse_questions called with None or a str:  not text  holds of None too
ParseArgument(text) ==
  IF text = PyNone THEN <<>> ELSE parse_questions(text.value)

ParseInit ==
  /\ ALL_QUESTIONS_CACHE = CACHE_NONE
  /\ NUM_QUESTIONS = MaxCount
  /\ service = TRUE
  /\ threaded = FALSE
  /\ now = 0
  /\ fetches = 0
  /\ clients = [c \in Clients |-> IdleClient]
  /\ source \in Sources
  /\ parsed = NOT_PARSED

\* questions = parse_questions(text)
Parse ==
  /\ ~parsed.done
  /\ parsed' = [done |-> TRUE, questions |-> ParseArgument(Argument(source))]
  /\ UNCHANGED <<ALL_QUESTIONS_CACHE, NUM_QUESTIONS, service, threaded, now,
                 fetches, clients, source>>

ParseNext == Parse

SpecParse == ParseInit /\ [][ParseNext]_vars

(***************************************************************************)
(* Properties.                                                             *)
(***************************************************************************)

\* the session is being answered: question() gets past its two guards
InProgress(sess) ==
  ~NoQuiz(sess) /\ ~QuizOver(CurrentStep(sess), sess.quiz_indices)

\* the step taken is one of the handler that serves the client followed: the
\* clock and the other clients stand
ByObserved ==
  now' = now /\ \A d \in Clients \ {Observed} : clients'[d] = clients[d]

\* the step taken is the one in which a call of the route by the client
\* followed returns: the session is the one the call found, the primed one
\* the one it leaves
Calls(route) ==
  ByObserved /\ clients'[Observed].pc = "idle" /\ request'.route = route

\* the step taken is a POST to /question that the session accepts
Submits == Calls("question") /\ InProgress(session) /\ request'.method = "POST"

\* the step taken is a start_quiz that begins a quiz
Starts == Calls("start_quiz") /\ response' = Redirect("question")

\* what summary would tally for a session
TallyOf(sess) == TallyFrom(sess.quiz_indices, sess.answers, 0, NO_TALLY)

\* summary reports step i of the tally as incorrect and not answered
ReportedNotAnswered(tally, i) ==
  \E j \in 1..Len(tally.incorrect) :
    tally.incorrect[j].index = i + 1 /\ tally.incorrect[j].user = "Not Answered"

\* the size of the question bank
BankSize == Len(ALL_QUESTIONS_CACHE.questions)

\* C1: a start_quiz that begins a quiz over a bank of K >= 1 questions
\* leaves in the session a selection of exactly min(NUM_QUESTIONS, K) indices,
\* pairwise distinct, each in 0..K-1.
C1_Selection ==
  [][(Starts /\ BankSize >= 1) =>
       LET sel == session'.quiz_indices
       IN /\ Len(sel) = (IF NUM_QUESTIONS < BankSize THEN NUM_QUESTIONS ELSE BankSize)
          /\ \A i \in 1..Len(sel) : sel[i] \in 0..(BankSize - 1)
          /\ \A i, j \in 1..Len(sel) : sel[i] = sel[j] => i = j]_vars

\* a start has just truncated a bank of 2 to a selection of 1, and the
\* question drawn is the second of the bank
C1_Witness ==
  /\ request.route = "start_quiz"
  /\ response = Redirect("question")
  /\ BankSize = 2
  /\ NUM_QUESTIONS = 1
  /\ session.quiz_indices = <<1>>

\* C2: an accepted POST with action 'end' at step s redirects to the summary
\* whatever is left to ask and leaves exactly the keys str(0)..str(s) in
\* answers, so that a summary of that session reports every step after s as
\* incorrect with 'Not Answered'; and every summary reports so each step
\* that has no key in answers.
C2_EndGoesToSummary ==
  /\ [][(Submits /\ request'.action = PyStr("end")) =>
          LET s == CurrentStep(session)
          IN /\ response' = Redirect("summary")
             /\ DOMAIN session'.answers = {Str(i) : i \in 0..s}
             /\ \A i \in (s + 1)..(Len(session.quiz_indices) - 1) :
                  ReportedNotAnswered(TallyOf(session), i)']_vars
  /\ [][(Calls("summary") /\ HasKey(session, "quiz_indices")) =>
          /\ response'.view = "summary"
          /\ \A i \in 0..(Len(session.quiz_indices) - 1) :
               ~HasKey(session.answers, Str(i)) =>
                 \E j \in 1..Len(session'.incorrect) :
                   /\ session'.incorrect[j].index = i + 1
                   /\ session'.incorrect[j].user = "Not Answered"]_vars

\* the summary of a quiz of 2 that was ended at step 0: step 1 has no answer
\* and is listed as not answered
C2_Witness ==
  /\ response.kind = "page" /\ response.view = "summary"
  /\ Len(session.quiz_indices) = 2
  /\ CurrentStep(session) = 0
  /\ DOMAIN session.answers = {"0"}
  /\ \E j \in 1..Len(session.incorrect) :
       session.incorrect[j].index = 2 /\ session.incorrect[j].user = "Not Answered"

\* C3: a start sets current to 0; no other step lowers it; an accepted POST
\* whose action is not 'end' raises it by exactly 1; and nothing else (a GET
\* of the question, an 'end', a refused POST, summary, review, home) changes
\* it.
C3_CurrentStep ==
  [][/\ Starts => HasKey(session', "current") /\ session'.current = 0
     /\ ~Starts => CurrentStep(session') >= CurrentStep(session)
     /\ (Submits /\ request'.action # PyStr("end")) =>
          CurrentStep(session') = CurrentStep(session) + 1
     /\ ~Starts /\ ~(Submits /\ request'.action # PyStr("end")) =>
          /\ CurrentStep(session') = CurrentStep(session)
          /\ HasKey(session', "current") = HasKey(session, "current")]_vars

\* the second of two submissions has just been taken
C3_Witness ==
  /\ request.route = "question" /\ request.method = "POST"
  /\ request.action = PyStr("next")
  /\ HasKey(session, "current") /\ session.current = 2
  /\ DOMAIN session.answers = {"0", "1"}

\* C4: the submission that answers the last question of the selection is
\* redirected to the summary; a question() call on a session whose current
\* has reached the selection length is redirected to the summary and changes
\* nothing; and a question page is rendered only for a step below that
\* length, the one current points at.
C4_ReachesSummary ==
  [][/\ (Submits /\ request'.action # PyStr("end")
           /\ CurrentStep(session) + 1 = Len(session.quiz_indices)) =>
          /\ response' = Redirect("summary")
          /\ CurrentStep(session') = Len(session'.quiz_indices)
     /\ (Calls("question") /\ ~NoQuiz(session)
           /\ CurrentStep(session) >= Len(session.quiz_indices)) =>
          /\ response' = Redirect("summary")
          /\ session' = session
     /\ (Calls("question") /\ response'.kind = "page") =>
          /\ ~NoQuiz(session)
          /\ CurrentStep(session) < Len(session.quiz_indices)
          /\ response'.body.number = CurrentStep(session) + 1
          /\ response'.body.question =
               Question(session.quiz_indices[CurrentStep(session) + 1]).question]_vars

\* the second submission of a quiz of 2 has been sent to the summary
C4_Witness ==
  /\ request.route = "question" /\ request.method = "POST"
  /\ request.action = PyStr("next")
  /\ response = Redirect("summary")
  /\ Len(session.quiz_indices) = 2
  /\ CurrentStep(session) = 2

\* C5: a start that begins a quiz leaves empty answers, current 0, a
\* selection drawn from all the selections of the bank and start_time equal to
\* the time of the call, whatever the session held; a summary of the session
\* it leaves counts no answer: every step is reported as not answered.
C5_RestartIsFresh ==
  [][Starts =>
       /\ session'.answers = EmptyDict
       /\ session'.current = 0
       /\ session'.quiz_indices \in Selections(BankSize', NUM_QUESTIONS)
       /\ session'.start_time = now
       /\ TallyOf(session)'.correct_count = 0
       /\ \A i \in 0..(Len(session'.quiz_indices) - 1) :
            ReportedNotAnswered(TallyOf(session), i)']_vars

\* a restart, later than time 0, of a session whose previous quiz was
\* summarized with a wrong answer to another question than the new first one
C5_Witness ==
  /\ request.route = "start_quiz"
  /\ response = Redirect("question")
  /\ session.start_time > 0
  /\ session.answers = EmptyDict
  /\ HasKey(session, "incorrect")
  /\ Len(session.incorrect) = 2
  /\ session.incorrect[1].user \in Labels
  /\ session.incorrect[1].question # Question(session.quiz_indices[1]).question

\* the summary page has just been rendered
SummaryShown == response.kind = "page" /\ response.view = "summary"

\* answers.get(str(i)) of a session
Submitted(sess, i) == Get(sess.answers, Str(i), PyNone)

\* the question record step i of a session points at
Selected(sess, i) == Question(sess.quiz_indices[i + 1])

\* C6 (as claimed): review never renders a list while the session holds a
\* start_time, that is after a start whose quiz has not been summarized yet:
\* the only list it could render then is the one of the previous quiz.
C6_ReviewAfterRestart ==
  ~(response.kind = "page" /\ response.view = "review" /\ HasKey(session, "start_time"))

\* C7: the summary's correct count is the number of steps whose stored answer
\* equals the correct label of the selected question, correct count plus the
\* length of the incorrect list is the total, a non-empty selection answered
\* all right scores 100.00 with an empty list and one answered all wrong
\* scores 0 with a list as long as the total.
C7_Tally ==
  SummaryShown =>
    LET total == Len(session.quiz_indices)
        right == {i \in 0..(total - 1) :
                    /\ HasKey(session.answers, Str(i))
                    /\ session.answers[Str(i)] = PyStr(Selected(session, i).correct)}
    IN /\ response.body.total = total
       /\ response.body.correct = Cardinality(right)
       /\ response.body.correct + Len(session.incorrect) = total
       /\ response.body.incorrect = Len(session.incorrect)
       /\ (total > 0 /\ Cardinality(right) = total) =>
            response.body.percent = 10000 /\ session.incorrect = <<>>
       /\ right = {} =>
            response.body.percent = 0 /\ Len(session.incorrect) = total

\* the summary of a quiz of 2 in the order <<1, 0>>, both answered right
C7_Witness ==
  /\ SummaryShown
  /\ session.quiz_indices = <<1, 0>>
  /\ response.body.correct = 2
  /\ response.body.percent = 10000
  /\ session.incorrect = <<>>

\* C8: the incorrect list has one entry per step whose stored answer differs
\* from the correct label, in increasing step order; the entry of step i has
\* index i + 1, the question, options, correct label and description of the
\* bank record at quiz_indices[i], and the label submitted at step i ('Not
\* Answered' when none was).
C8_IncorrectList ==
  SummaryShown =>
    LET inc == session.incorrect
        wrong == {i \in 0..(Len(session.quiz_indices) - 1) :
                    Submitted(session, i) # PyStr(Selected(session, i).correct)}
    IN /\ Len(inc) = Cardinality(wrong)
       /\ \A j \in 1..Len(inc) :
            LET i == inc[j].index - 1
            IN /\ i \in wrong
               /\ j > 1 => inc[j - 1].index < inc[j].index
               /\ inc[j].question = Selected(session, i).question
               /\ inc[j].options = Selected(session, i).options
               /\ inc[j].correct = Selected(session, i).correct
               /\ inc[j].description = Selected(session, i).description
               /\ inc[j].user = (IF Submitted(session, i) = PyNone
                                 THEN "Not Answered"
                                 ELSE Submitted(session, i).value)

\* the summary of a quiz of 2 in the order <<1, 0>>, both answered wrong with
\* a label
C8_Witness ==
  /\ SummaryShown
  /\ session.quiz_indices = <<1, 0>>
  /\ Len(session.incorrect) = 2
  /\ session.incorrect[1].user \in Labels
  /\ session.incorrect[2].user \in Labels
  /\ session.incorrect[1].question = Question(1).question

\* C9 (as claimed): an accepted POST without a label stores the string 'Not
\* Answered' under the current step.
C9_StoresNotAnswered ==
  [][(Submits /\ request'.answer = PyNone) =>
       /\ HasKey(session'.answers, Str(CurrentStep(session)))
       /\ session'.answers[Str(CurrentStep(session))] = PyStr("Not Answered")]_vars

\* C9 (amended): an accepted POST without a label stores None under the
\* current step, a value that is none of the four labels; a summary of the
\* session reports that step as incorrect with 'Not Answered', and every
\* summary lists each step that holds None and counts none of them as correct.
C9_StoresNone ==
  /\ [][(Submits /\ request'.answer = PyNone) =>
          /\ HasKey(session'.answers, Str(CurrentStep(session)))
          /\ session'.answers[Str(CurrentStep(session))] = PyNone
          /\ PyNone \notin {PyStr(l) : l \in Labels}
          /\ ReportedNotAnswered(TallyOf(session)', CurrentStep(session))]_vars
  /\ [][(Calls("summary") /\ HasKey(session, "quiz_indices")) =>
          LET none == {i \in 0..(Len(session.quiz_indices) - 1) :
                         Submitted(session, i) = PyNone}
          IN /\ response'.body.correct <= Len(session.quiz_indices) - Cardinality(none)
             /\ \A i \in none :
                  \E j \in 1..Len(session'.incorrect) :
                    /\ session'.incorrect[j].index = i + 1
                    /\ session'.incorrect[j].user = "Not Answered"]_vars

\* a first submission without a label has been stored and summarized
C9_Witness ==
  /\ SummaryShown
  /\ HasKey(session.answers, "0")
  /\ session.answers["0"] = PyNone
  /\ session.incorrect[1].index = 1
  /\ session.incorrect[1].user = "Not Answered"

\* C10 (as claimed): once a POST to /question has been answered with the
\* redirect to the summary (an 'end', the last answer, or a quiz already
\* over), no step but a start changes answers or current.
C10_CompletedIsFinal ==
  [][(/\ request.route = "question"
      /\ request.method = "POST"
      /\ response = Redirect("summary")
      /\ ~Starts) =>
       /\ session'.answers = session.answers
       /\ CurrentStep(session') = CurrentStep(session)]_vars

\* no 'end' has been taken on a session that is being answered: an 'end' at
\* step s files an answer under s and leaves current at s
NoEndTaken(sess) ==
  DOMAIN sess.answers = {Str(i) : i \in 0..(CurrentStep(sess) - 1)}

\* C11 (as claimed): summary called on a session that is still being answered
\* (current below the selection length, no 'end' taken) is refused with a
\* redirect and leaves the session as it was: start_time stays and no
\* incorrect list is stored.
C11_SummaryNeedsCompleted ==
  [][(Calls("summary") /\ InProgress(session) /\ NoEndTaken(session)) =>
       /\ response'.kind = "redirect"
       /\ session' = session]_vars

\* the handler that serves the client followed is in the except clause of
\* line 526: the provider call has raised, or there is no API client
LoadFailed == clients[Observed].pc = "except"

\* the response is one of the two error pages of start_quiz
StartError(resp) ==
  resp.kind = "page" /\ resp.view = "start_quiz" /\ "error" \in DOMAIN resp.body

\* C12: a start_quiz whose provider call raises answers with the
\* critical-error page and leaves an empty bank; and a start_quiz that leaves
\* the bank empty (failed call, or a text without any valid question, now or
\* at an earlier load) answers with an error page and leaves every key of the
\* session as it was, creating no selection.
C12_FailedStartKeepsSession ==
  [][Calls("start_quiz") =>
       /\ LoadFailed =>
            /\ BankSize' = 0
            /\ response' = CriticalError(clients[Observed].locals.raised)
       /\ BankSize' = 0 =>
            /\ StartError(response')
            /\ session' = session
            /\ ~HasKey(session', "quiz_indices")]_vars

\* the provider call of the first start has raised and the error page is shown
C12_Witness ==
  /\ request.route = "start_quiz"
  /\ response = CriticalError("HttpError")
  /\ fetches = 1
  /\ BankSize = 0
  /\ session = EmptyDict

\* client c has a start_quiz taken up in the step
TakesUpStart(c) ==
  /\ clients[c].pc = "idle"
  /\ clients'[c].pc # "idle"
  /\ clients'[c].request.route = "start_quiz"

\* a start_quiz of client c returns in the step
StartReturns(c) ==
  /\ clients[c].pc # "idle"
  /\ clients'[c].pc = "idle"
  /\ clients'[c].request.route = "start_quiz"

\* C13: when requests are served one at a time, get_document_text is called
\* at most once, while the cache is None, by the first start_quiz, and that
\* start_quiz returns with the cache loaded; a loaded cache never changes; a
\* start_quiz taken up with the cache loaded goes on to the test of line 530
\* without calling the provider, and when it finds the cache empty it
\* answers with the no-questions page.
C13_LoadedOnce ==
  [][/\ fetches' <= 1
     /\ fetches' # fetches => ~ALL_QUESTIONS_CACHE.loaded /\ fetches = 0
     /\ ALL_QUESTIONS_CACHE.loaded => ALL_QUESTIONS_CACHE' = ALL_QUESTIONS_CACHE
     /\ \A c \in Clients :
          /\ StartReturns(c) => ALL_QUESTIONS_CACHE'.loaded
          /\ (TakesUpStart(c) /\ ALL_QUESTIONS_CACHE.loaded) =>
               clients'[c].pc = "test" /\ fetches' = fetches
          /\ (StartReturns(c) /\ clients[c].pc = "test" /\ BankSize = 0) =>
               clients'[c].response = NO_QUESTIONS /\ fetches' = fetches]_vars

\* a start_quiz of the client followed after the one of another client whose
\* provider call raised: the raise itself is answered with the critical-error
\* page, the later start with the no-questions page, and the provider has
\* been called once
C13_Witness ==
  /\ request.route = "start_quiz"
  /\ response = NO_QUESTIONS
  /\ \E c \in Clients \ {Observed} :
       clients[c].response = CriticalError("HttpError")
  /\ fetches = 1
  /\ ALL_QUESTIONS_CACHE = Cached(<<>>)

\* C14 (as claimed): whatever the interleaving of the first start_quiz
\* requests, and also when one of their provider calls raises, every index
\* held in a client's selection is an index of the question cache.
C14_SelectionsStayValid ==
  \A c \in Clients :
    HasKey(clients[c].session, "quiz_indices") =>
      \A i \in 1..Len(clients[c].session.quiz_indices) :
        clients[c].session.quiz_indices[i] < Len(ALL_QUESTIONS_CACHE.questions)

\* C15: a GET or POST of the question page and a summary on a session that
\* holds no selection redirect to home, a review on a session that holds no
\* incorrect list redirects to the summary, and each of these calls leaves
\* the session as it was.
C15_NoSessionRedirects ==
  [][/\ ((Calls("question") \/ Calls("summary"))
           /\ ~HasKey(session, "quiz_indices")) =>
          /\ response' = Redirect("home")
          /\ session' = session
     /\ (Calls("review") /\ ~HasKey(session, "incorrect")) =>
          /\ response' = Redirect("summary")
          /\ session' = session]_vars

\* an answer has been posted by a client that holds no quiz
C15_Witness ==
  /\ request.route = "question" /\ request.method = "POST"
  /\ request.answer \in {PyStr(l) : l \in Labels}
  /\ response = Redirect("home")
  /\ session = EmptyDict

\* session['incorrect'] as a list of at most one value: empty when the key
\* is absent
StoredIncorrect(sess) ==
  IF HasKey(sess, "incorrect") THEN <<sess.incorrect>> ELSE <<>>

\* C16: a review of a session that holds an incorrect list renders that list
\* as it is stored and leaves the session as it was; and the stored list is
\* written by summary alone, which stores the list it tallied: so the list
\* review renders is the one of the latest summary of the session.
C16_ReviewShowsCachedList ==
  [][/\ (Calls("review") /\ HasKey(session, "incorrect")) =>
          /\ response' = Page("review", [incorrect |-> session.incorrect])
          /\ session' = session
     /\ StoredIncorrect(session') # StoredIncorrect(session) =>
          Calls("summary") /\ HasKey(session, "quiz_indices")
     /\ (Calls("summary") /\ HasKey(session, "quiz_indices")) =>
          StoredIncorrect(session') = <<TallyOf(session).incorrect>>]_vars

\* a review page that lists two wrong answers, the first given with a label
C16_Witness ==
  /\ response.kind = "page" /\ response.view = "review"
  /\ Len(response.body.incorrect) = 2
  /\ response.body.incorrect[1].user \in Labels
  /\ response.body.incorrect = session.incorrect

\* C17: the summary of a session whose selection is empty, which a start
\* with NUM_QUESTIONS = 0 over a non-empty bank leaves, shows total 0,
\* correct 0, incorrect 0 and percent 0, and stores an empty incorrect list.
C17_EmptySelectionScoresZero ==
  (SummaryShown /\ session.quiz_indices = <<>>) =>
    /\ NUM_QUESTIONS = 0 /\ BankSize > 0
    /\ response.body.total = 0
    /\ response.body.correct = 0
    /\ response.body.incorrect = 0
    /\ response.body.percent = 0
    /\ session.incorrect = <<>>

\* the summary of a quiz started with NUM_QUESTIONS = 0 over a bank of 2
C17_Witness ==
  /\ SummaryShown
  /\ NUM_QUESTIONS = 0
  /\ BankSize = 2
  /\ session.quiz_indices = <<>>
  /\ response.body.percent = 0

\* a block as written lacks what a record needs: a prompt, 4 options, an
\* answer line or a description line
Malformed(b) ==
  b.prompt = "" \/ Len(b.options) < 4 \/ b.answer = "" \/ b.description = ""

\* the blocks of a sequence that are not malformed, in their order
WellFormedOf(blocks) ==
  LET WellFormed(b) == ~Malformed(b) IN SelectSeq(blocks, WellFormed)

\* the record a well-formed block stands for
RecordOf(b) ==
  [question |-> b.prompt, options |-> SubSeq(b.options, 1, 4),
   correct |-> b.label, description |-> b.description]

\* parse_questions has returned for a text that holds the start marker
ParsedMarked == parsed.done /\ ~source.absent /\ source.marker

\* C18: for a text with the start marker, parse_questions returns the records
\* of the blocks that are not malformed (empty prompt, fewer than 4 options,
\* no answer line, no description line), in the order of the text, and
\* nothing for the malformed ones: what it returns for the text with the
\* malformed blocks taken out.
C18_MalformedBlocksDropped ==
  ParsedMarked =>
    LET kept == WellFormedOf(source.blocks)
    IN /\ parsed.questions = [i \in 1..Len(kept) |-> RecordOf(kept[i])]
       /\ parsed.questions =
            parse_questions(TextOf([source EXCEPT !.blocks = kept]))

\* a text whose first block has 3 options and whose second block is well
\* formed has been parsed to the record of the second
C18_Witness ==
  /\ ParsedMarked
  /\ source.blocks = <<BLOCK_THREE, BLOCK_TAIL_FIRST>>
  /\ parsed.questions = <<RecordOf(BLOCK_TAIL_FIRST)>>

\* C19: every record parse_questions returns has exactly 4 options; and
\* for a text with the start marker, every block written with a prompt, an
\* answer line, a description line and more than 4 option lines has its
\* record in the result, with the first 4 of its options in their order.
C19_FirstFourOptions ==
  parsed.done =>
    /\ \A i \in 1..Len(parsed.questions) : Len(parsed.questions[i].options) = 4
    /\ ParsedMarked =>
         \A j \in 1..Len(source.blocks) :
           LET b == source.blocks[j]
           IN (Len(b.options) > 4 /\ b.prompt # "" /\ b.answer # ""
                 /\ b.description # "") =>
                \E i \in 1..Len(parsed.questions) :
                  /\ parsed.questions[i].question = b.prompt
                  /\ parsed.questions[i].options =
                       <<b.options[1], b.options[2], b.options[3], b.options[4]>>

\* the block with 5 option lines, after a well-formed one, has been parsed to
\* a record with its first 4 options
C19_Witness ==
  /\ ParsedMarked
  /\ source.blocks = <<BLOCK_PLAIN, BLOCK_FIVE>>
  /\ Len(parsed.questions) = 2
  /\ parsed.questions[2].options = <<"a3", "b3", "c3", "d3">>

\* C20: parse_questions returns the empty list for no text, for the empty
\* text and for every text without the start marker; and for a text with the
\* marker what precedes it adds nothing: the result has no record of the
\* block written before the marker and is what the text gives without its
\* preamble.
C20_MarkerGatesParse ==
  parsed.done =>
    /\ (source.absent \/ ~source.marker) => parsed.questions = <<>>
    /\ ParsedMarked =>
         /\ \A i \in 1..Len(parsed.questions) :
              parsed.questions[i].question # BLOCK_BEFORE.prompt
         /\ parsed.questions =
              ParseArgument(Argument([source EXCEPT !.preamble = ""]))
         /\ Len(parsed.questions) = Len(WellFormedOf(source.blocks))

\* a text with a whole block before the marker and a well-formed block after
\* it has been parsed to the record of the block after it
C20_Witness ==
  /\ ParsedMarked
  /\ source.preamble = RenderBlock(BLOCK_BEFORE)
  /\ source.blocks = <<BLOCK_PLAIN>>
  /\ parsed.questions = <<RecordOf(BLOCK_PLAIN)>>

\* C21 (as claimed): every record parse_questions returns has a correct
\* label that is one of A, B, C, D, the labels of its 4 options.
C21_CorrectIsALabel ==
  parsed.done =>
    \A i \in 1..Len(parsed.questions) : parsed.questions[i].correct \in Labels

\* C22: for a text of one block written with an answer line and a
\* description line, put in any order that keeps the option lines in their
\* own order, parse_questions returns what it returns for the block as
\* written: the record of the block when it has a prompt and 4 options,
\* nothing otherwise.
C22_OrderOfLinesIsFree ==
  (ParsedMarked /\ source.order.reordered) =>
    \A j \in 1..Len(source.blocks) :
      LET b == source.blocks[j]
      IN (b.answer # "" /\ b.description # "") =>
           /\ parsed.questions =
                parse_questions(TextOf([source EXCEPT !.order = AS_WRITTEN]))
           /\ parsed.questions =
                (IF b.prompt # "" /\ Len(b.options) >= 4 THEN <<RecordOf(b)>>
                 ELSE <<>>)

\* the block with 5 options, written with its answer line first and its
\* description line between the second and the third option, has been parsed
\* to its record
C22_Witness ==
  /\ ParsedMarked
  /\ source.order.reordered
  /\ source.order.answer_at = 0
  /\ source.order.description_at = 2
  /\ source.blocks = <<BLOCK_FIVE>>
  /\ parsed.questions = <<RecordOf(BLOCK_FIVE)>>

\* session['start_time'] as a list of at most one value: empty when the key
\* is absent
StoredStartTime(sess) ==
  IF HasKey(sess, "start_time") THEN <<sess.start_time>> ELSE <<>>

\* C23: the session holds no start_time while the cache is None, that is
\* before the first start_quiz has got as far as loading it; a
\* start_time appears or changes only by a start_quiz that begins a quiz,
\* which sets it to the time of the call; a GET or POST of the question page
\* leaves it as it is; after a summary it is absent; and a question page
\* shows start_time + QUIZ_DURATION_SECONDS as its end time, whenever it is
\* rendered.
C23_StartTime ==
  [][/\ ~ALL_QUESTIONS_CACHE.loaded => StoredStartTime(session) = <<>>
     /\ Starts => StoredStartTime(session') = <<now>>
     /\ (StoredStartTime(session') # StoredStartTime(session)
           /\ StoredStartTime(session') # <<>>) => Starts
     /\ Calls("question") => StoredStartTime(session') = StoredStartTime(session)
     /\ Calls("summary") => StoredStartTime(session') = <<>>
     /\ (Calls("question") /\ response'.kind = "page") =>
          /\ HasKey(session, "start_time")
          /\ response'.body.endTime = session.start_time + QUIZ_DURATION_SECONDS]_vars

\* the page of the second question of a quiz started at time 0, rendered
\* after the clock has moved on, shows the end time of the first
C23_Witness ==
  /\ request.route = "question" /\ request.method = "GET"
  /\ response.kind = "page"
  /\ response.body.number = 2
  /\ now > 0
  /\ session.start_time = 0
  /\ response.body.endTime = QUIZ_DURATION_SECONDS

\* the step taken is a POST to /question, after the quiz time has run out,
\* on a session that holds a quiz with questions left
SubmitsLate ==
  /\ Calls("question")
  /\ request'.method = "POST"
  /\ HasKey(session, "quiz_indices")
  /\ HasKey(session, "start_time")
  /\ CurrentStep(session) < Len(session.quiz_indices)
  /\ now > session.start_time + QUIZ_DURATION_SECONDS

\* C24: a POST to /question that arrives later than start_time +
\* QUIZ_DURATION_SECONDS on a session with questions left is taken as any
\* other: its answer is stored under the current step and the other answers
\* stay, current moves on by 1 (or stays, with the redirect to the summary,
\* on 'end'), and a summary of the session it leaves counts the step as
\* correct when the answer is the correct label.
C24_LateSubmissionCounts ==
  [][SubmitsLate =>
       LET s == CurrentStep(session)
           left == Len(session.quiz_indices) - (s + 1)
       IN /\ HasKey(session'.answers, Str(s))
          /\ session'.answers[Str(s)] = request'.answer
          /\ \A k \in DOMAIN session.answers \ {Str(s)} :
               HasKey(session'.answers, k)
                 /\ session'.answers[k] = session.answers[k]
          /\ request'.action # PyStr("end") =>
               /\ CurrentStep(session') = s + 1
               /\ response' =
                    Redirect(IF left = 0 THEN "summary" ELSE "question")
          /\ request'.action = PyStr("end") =>
               /\ CurrentStep(session') = s
               /\ response' = Redirect("summary")
          /\ request'.answer = PyStr(Selected(session, s).correct) =>
               /\ TallyOf(session)'.correct_count >= 1
               /\ \A j \in 1..Len(TallyOf(session)'.incorrect) :
                    TallyOf(session)'.incorrect[j].index # s + 1]_vars

\* the quiz time of a quiz of 2 started at time 0 has run out, its first
\* step holds the correct label and current has moved on to the second
C24_Witness ==
  /\ request.route = "question" /\ request.method = "POST"
  /\ request.action = PyStr("next")
  /\ response = Redirect("question")
  /\ HasKey(session, "start_time")
  /\ now > session.start_time + QUIZ_DURATION_SECONDS
  /\ Len(session.quiz_indices) = 2
  /\ session.current = 1
  /\ session.answers = Put(EmptyDict, "0", PyStr(Selected(session, 0).correct))

\* C25: in every state whose session holds a selection of length L, the
\* session holds current with 0 <= current <= L, the keys of answers include
\* str(i) for every step i below current and are all among str(0) ..
\* str(min(current, L - 1)), and every index of the selection is an index of
\* the question cache.
C25_SessionShape ==
  HasKey(session, "quiz_indices") =>
    LET L == Len(session.quiz_indices)
        top == IF session.current < L - 1 THEN session.current ELSE L - 1
    IN /\ HasKey(session, "current") /\ HasKey(session, "answers")
       /\ session.current \in 0..L
       /\ {Str(i) : i \in 0..(session.current - 1)} \subseteq DOMAIN session.answers
       /\ DOMAIN session.answers \subseteq {Str(i) : i \in 0..top}
       /\ \A i \in 1..L : session.quiz_indices[i] \in 0..(BankSize - 1)

\* a quiz of 2 ended at its second step: both steps hold an answer and
\* current is still 1
C25_Witness ==
  /\ request.route = "question" /\ request.method = "POST"
  /\ request.action = PyStr("end")
  /\ HasKey(session, "quiz_indices")
  /\ Len(session.quiz_indices) = 2
  /\ session.current = 1
  /\ DOMAIN session.answers = {"0", "1"}

====
